---- MODULE Spec2Model ----
(***************************************************************************)
(* State synchronisation and action verification bridge of the smart-home  *)
(* cloud function: the telemetry cache filled by the MQTT message          *)
(* callback, the polling wait primitives, and the action protocol in its   *)
(* three drafts:                                                           *)
(*   "dm"   device_manager.py  (DeviceManager.get_action_response)         *)
(*   "idx"  index.py           (SmartHomeHandler.handle_action)            *)
(*   "pers" index-with-working-persistent-mqtt.py + mqtt_manager.py        *)
(* Time is counted in ticks.  A step of computation takes no time; a       *)
(* time.sleep(0.1) takes PollTicks ticks, so that a message can land       *)
(* strictly between two polls.                                             *)
(***************************************************************************)
EXTENDS Integers, Sequences, FiniteSets, TLC

\* ------------------------------------------------------------- bounds
MaxTime == 8     \* the clock stops here
MaxMsgs == 2     \* messages the broker delivers in one run
MaxTimeout == 3  \* largest timeout of a wait called on its own
MaxPolls == 2    \* turns of a wait's loop when the threads are followed lock by lock
MaxCleanups == 3 \* calls of cleanup in one run, the handler's own included
MaxSubs == 3     \* subscribe calls on record before the broker stops dropping the connection

\* ---------------------------------------------------------- constants
None == "None"                       \* Python's None
PUSHER_ID == "pusher"
TEST_PUSHER_ID == "pushernodemcu"
WATERING_SYSTEM_ID == "watering-system"
PUSHER_DEVICE_ID == "mqtt-pusher"              \* os.environ, opaque
TEST_PUSHER_DEVICE_ID == "mqtt-pushernodemcu"  \* os.environ, opaque
WATERING_SYSTEM_DEVICE_ID == "mqtt-watering"   \* os.environ, opaque
ON_OFF == "devices.capabilities.on_off"
ERROR_STATUS == "ERROR"
DEVICE_UNREACHABLE_CODE == "DEVICE_UNREACHABLE"

Variants == {"dm", "idx", "pers"}
RequestDevices == {PUSHER_ID, TEST_PUSHER_ID}

\* DEVICES[device_id]["mqtt_device_id"]
DEVICES(device_id) ==
    CASE device_id = TEST_PUSHER_ID -> TEST_PUSHER_DEVICE_ID
      [] device_id = PUSHER_ID -> PUSHER_DEVICE_ID
      [] device_id = WATERING_SYSTEM_ID -> WATERING_SYSTEM_DEVICE_ID

\* the state topics the handler subscribes to
SubscribedDevices == {PUSHER_DEVICE_ID, TEST_PUSHER_DEVICE_ID}

\* time.sleep(0.1) / SMALL_DELAY between two polls, in ticks (exaggerated
\* against the timeouts so that the instants between two polls exist)
PollTicks == 2

\* Timeouts and ages in ticks.  The source's seconds are scaled down, draft
\* by draft, so that every wait takes two polls and the order of the values
\* within a draft is kept (dm 2 = 2; idx 3.0 < 5.0; pers 5.0 < 10 < 60).
MQTT_WAIT_FOR_STATE_TIMEOUT == 3          \* dm: wait_for_state, 2 s
MQTT_WAIT_FOR_STATE_CHANGE_TIMEOUT == 3   \* dm: wait_for_state_change, 2 s
IDX_WAIT_FOR_STATE_TIMEOUT == 3           \* idx: wait_for_state(timeout=3.0)
IDX_WAIT_FOR_STATE_CHANGE_TIMEOUT == 4    \* idx: wait_for_state_change(timeout=5.0)
PERS_WAIT_FOR_UPDATE_TIMEOUT == 3         \* pers: wait_for_state_update(timeout=5.0)
IDX_QUERY_WAIT_FOR_STATE_TIMEOUT == 4     \* idx, query: wait_for_state(timeout=5.0)
PERS_BASELINE_MAX_AGE == 36               \* pers: get_device_state(max_age_seconds=60)
PERS_FALLBACK_MAX_AGE == 6                \* pers: get_device_state(max_age_seconds=10)
get_error_response_params == 1            \* def get_error_response(message)

\* ------------------------------------------------------------ records
\* A cache entry {'state', 'timestamp', 'raw_payload'}.  seq is the arrival
\* index of the message: it stands for the part of time.time() finer than
\* a tick, so that two arrivals never carry the same timestamp.
NoData == [state |-> None, timestamp |-> -1, seq |-> 0, raw_payload |-> None]

\* the bodies the broker can deliver on a state topic
WirePayloads == {"{state:on}", "{state:off}", "{}", "[]", "5", "garbage", "0xff"}

\* json.loads(msg.payload.decode('utf-8')): the decoded value, or the
\* exception it raises
json_loads(body) ==
    CASE body = "{state:on}" -> [kind |-> "dict", state |-> "on"]
      [] body = "{state:off}" -> [kind |-> "dict", state |-> "off"]
      [] body = "{}" -> [kind |-> "dict", state |-> None]
      [] body = "[]" -> [kind |-> "list", state |-> None]
      [] body = "5" -> [kind |-> "int", state |-> None]
      [] body = "0xff" -> [kind |-> "UnicodeDecodeError", state |-> None]
      [] OTHER -> [kind |-> "JSONDecodeError", state |-> None]

\* what json.loads(...decode(...)) raises instead of returning a value
DecodeErrors == {"UnicodeDecodeError", "JSONDecodeError"}

\* an error message: the format string and the values it interpolates
Msg(text, expected, actual) == [text |-> text, expected |-> expected, actual |-> actual]
NoMsg == Msg(None, None, None)

NoResult == [status |-> None, error_code |-> None, error_message |-> NoMsg, raised |-> None]
DoneResult == [status |-> "DONE", error_code |-> None, error_message |-> NoMsg, raised |-> None]
Raised(exc) == [status |-> None, error_code |-> None, error_message |-> NoMsg, raised |-> exc]
Unhandled == [status |-> "unhandled", error_code |-> None, error_message |-> NoMsg, raised |-> None]

\* the dict error_util.get_error_response(message) builds
ErrorResult(message) ==
    [status |-> ERROR_STATUS, error_code |-> DEVICE_UNREACHABLE_CODE,
     error_message |-> message, raised |-> None]

\* a call get_error_response(...) with nargs positional arguments
get_error_response(nargs, message) ==
    IF nargs = get_error_response_params THEN ErrorResult(message) ELSE Raised("TypeError")

VARIABLES
    now,             \* time.time(), in ticks
    nmsgs,           \* messages delivered so far
    device_states,   \* the cache: mqtt device id -> entry, NoData when absent
    variant,         \* which draft of the bridge runs ("wait": a wait called on its own)
    pc,              \* position of the request in the action protocol
    device_id,       \* the request's device
    state_value,     \* capability["state"]["value"]
    start_time,      \* the running wait's start_time
    wake,            \* when the running wait's sleep ends
    timeout,         \* the running wait's timeout
    previous_state,  \* wait_for_state_change's previous_state
    initial_timestamp, \* wait_for_state_update's initial_timestamp (an entry, NoData for None)
    ret,             \* what the last wait returned
    current_state_data, \* the baseline entry, NoData for None
    result,          \* the capability's outcome
    calls,           \* history: the dispatcher calls and the returns of the waits, in order
    command_at,      \* history: nmsgs when the actuating command was accepted, -1 before
    post_states,     \* history: states stored for the device since the baseline was read (or the lone wait called)
    post_in_time,    \* history: those stored before the deadline of the wait for the change (or of the lone wait)
    fallback_entry,  \* history: the device's entry when the fallback read ran
    fallback_ret,    \* history: what the fallback read returned
    verified,        \* history: the entry the verdict was computed from
    arrived,         \* history: per device, the last well-formed message delivered and how many were
    devices_todo,    \* get_query_response: the devices of the request not yet handled
    responses,       \* get_query_response: response_devices
    starts,          \* history: when the handling of each device of a query began
    state_lock,      \* self.state_lock: the thread holding it, None when free
    net_pc,          \* the network thread's position in _on_message
    net_msg,         \* the message the network thread is delivering
    main_pc,         \* the calling thread's position in wait_for_state
    polls_left,      \* turns left before the wait's loop condition fails
    hpc,             \* position of the handler invocation
    request_type,    \* event["request_type"]
    mqtt_client,     \* handler: the ServerlessMQTTClient (get_mqtt_manager: _mqtt_manager) exists
    client,          \* self.client is set
    loop_running,    \* the paho network thread runs (loop_start .. loop_stop)
    transport,       \* the socket: "closed", "connecting" or "open"
    connected,       \* self.connected
    connection_event, \* self.connection_event is set
    broker_subs,     \* the topics the broker delivers to this connection
    topics_todo,     \* the topics connect_and_subscribe has still to subscribe to
    cs_result,       \* what connect_and_subscribe (connect) returned
    hresult,         \* what the handler returned
    sub_log,         \* history: the subscribe calls issued and what was known at the call
    cleanup_calls,   \* history: calls of cleanup (disconnect) so far
    last_cleanup,    \* history: the connection as the last cleanup left it
    pub_in,          \* the arguments and the environment of the last dispatcher call
    pub_out,         \* what that call returned (False before any call)
    request,         \* history: payload["devices"] of the action request, <<>> before it
    capabilities_todo, \* the capabilities of the device being handled not yet handled
    device_capabilities, \* the capability results of the device being handled
    started_at,      \* history: nmsgs when the handling of the capability began, -1 before
    resub            \* the manager's _on_connect: its loop over subscribed_topics

vars == <<now, nmsgs, device_states, variant, pc, device_id, state_value, start_time,
          wake, timeout, previous_state, initial_timestamp, ret, current_state_data, result,
          calls, command_at, post_states, post_in_time, fallback_entry, fallback_ret,
          verified, arrived, devices_todo, responses, starts,
          state_lock, net_pc, net_msg, main_pc, polls_left,
          hpc, request_type, mqtt_client, client, loop_running, transport, connected,
          connection_event, broker_subs, topics_todo, cs_result, hresult, sub_log, cleanup_calls,
          last_cleanup, pub_in, pub_out,
          request, capabilities_todo, device_capabilities, started_at, resub>>

envVars == <<now, nmsgs, device_states>>
reqVars == <<variant, device_id, state_value>>
waitVars == <<start_time, wake, timeout, previous_state, initial_timestamp>>
postVars == <<post_states, post_in_time>>
readVars == <<fallback_entry, fallback_ret, verified>>
queryVars == <<devices_todo, responses, starts>>
\* what the action protocol and the waits never touch
lockVars == <<state_lock, net_pc, net_msg, main_pc, polls_left>>
paho == <<client, loop_running, transport, connected, connection_event, broker_subs>>
connVars == <<hpc, request_type, mqtt_client, paho, topics_todo, cs_result, hresult,
              sub_log, cleanup_calls, last_cleanup>>
pubVars == <<pub_in, pub_out>>
actVars == <<request, capabilities_todo, device_capabilities, started_at>>
otherVars == <<queryVars, lockVars, connVars, pubVars, actVars, resub>>

\* the query protocol of device_manager.py and the one of index.py
QueryVariants == {"query", "idx_query"}

WaitPcs == {"wait_for_state", "wait_for_state_change", "wait_for_state_update"}
States == {"on", "off", None}

mqtt_device_id == DEVICES(device_id)
command == IF state_value THEN "1" ELSE "0"
\* variant: the expected state read the wrong way round
expected_state_swapped == IF state_value THEN "off" ELSE "on"
expected_state == IF state_value THEN "on" ELSE "off"
\* current_state_data.get('state'), None without a baseline
current_state == current_state_data.state

\* history: no well-formed message has been delivered for the device
NoArrival == [body |-> None, seq |-> 0, at |-> -1, n |-> 0]

\* history: cleanup has not been called
NotCleaned == [called |-> FALSE, loop_running |-> FALSE, transport |-> "closed", raised |-> FALSE]

\* the network thread delivers nothing
NoDelivery == [d |-> None, body |-> None]

\* the network thread is not in the loop of _on_connect
NotIterating == [active |-> FALSE, of |-> {}, left |-> {}, raised |-> FALSE]

\* no dispatcher call yet
NoPublish == [device_id |-> None, message |-> None, token |-> None, response |-> None]

\* one entry of the history of calls
Call(op, arg, ok) == [op |-> op, arg |-> arg, ok |-> ok]

\* the state after construction: an empty cache, no request yet
Constructed ==
    /\ now = 0
    /\ nmsgs = 0
    /\ device_states = [d \in SubscribedDevices |-> NoData]
    /\ pc = "idle"
    /\ device_id = PUSHER_ID
    /\ state_value = FALSE
    /\ start_time = 0
    /\ wake = 0
    /\ timeout = 0
    /\ previous_state = None
    /\ initial_timestamp = NoData
    /\ ret = NoData
    /\ current_state_data = NoData
    /\ result = NoResult
    /\ calls = <<>>
    /\ command_at = -1
    /\ post_states = {}
    /\ post_in_time = {}
    /\ fallback_entry = NoData
    /\ fallback_ret = NoData
    /\ verified = NoData
    /\ arrived = [d \in SubscribedDevices |-> NoArrival]
    /\ devices_todo = <<>>
    /\ responses = <<>>
    /\ starts = <<>>
    /\ state_lock = None
    /\ net_pc = "idle"
    /\ net_msg = NoDelivery
    /\ main_pc = "idle"
    /\ polls_left = 0
    /\ hpc = "start"
    /\ request_type = None
    /\ mqtt_client = FALSE
    /\ client = FALSE
    /\ loop_running = FALSE
    /\ transport = "closed"
    /\ connected = FALSE
    /\ connection_event = FALSE
    /\ broker_subs = {}
    /\ topics_todo = <<>>
    /\ cs_result = None
    /\ hresult = None
    /\ sub_log = <<>>
    /\ cleanup_calls = 0
    /\ last_cleanup = NotCleaned
    /\ pub_in = NoPublish
    /\ pub_out = FALSE
    /\ request = <<>>
    /\ capabilities_todo = <<>>
    /\ device_capabilities = <<>>
    /\ started_at = -1
    /\ resub = NotIterating

Init == Constructed /\ variant \in Variants

\* ------------------------------------------------- the message callback
\* the entry _on_message stores for a decoded payload
NewEntry(payload, body) ==
    [state |-> payload.state, timestamp |-> now, seq |-> nmsgs + 1,
     raw_payload |-> body]

\* variant: an entry, once stored, is kept (the first arrival wins)
StoreMessage_keep_first(d, body) ==
    LET payload == json_loads(body) IN
    IF payload.kind = "dict" /\ device_states[d] = NoData
    THEN [device_states EXCEPT ![d] = NewEntry(payload, body)]
    ELSE device_states

\* variant: whatever json.loads returns is stored
StoreMessage_any_value(d, body) ==
    LET payload == json_loads(body) IN
    IF payload.kind \notin DecodeErrors
    THEN [device_states EXCEPT ![d] = NewEntry(payload, body)]
    ELSE device_states

\* variant: only the state of an existing entry is written
StoreMessage_state_only(d, body) ==
    LET payload == json_loads(body) IN
    IF payload.kind = "dict"
    THEN IF device_states[d] = NoData
         THEN [device_states EXCEPT ![d] = NewEntry(payload, body)]
         ELSE [device_states EXCEPT ![d].state = payload.state]
    ELSE device_states

\* variant: the entry is stored for every device, whatever the topic
StoreMessage_every_device(d, body) ==
    LET payload == json_loads(body) IN
    IF payload.kind = "dict"
    THEN [e \in SubscribedDevices |-> NewEntry(payload, body)]
    ELSE device_states

\* the cache after _on_message(topic $devices/{d}/state, body): a body that
\* json.loads rejects, or that decodes to something without .get, raises
\* inside the try and is dropped
StoreMessage(d, body) ==
    LET payload == json_loads(body) IN
    IF payload.kind = "dict"
    THEN [device_states EXCEPT ![d] = NewEntry(payload, body)]
    ELSE device_states

\* the request has read its baseline (a lone wait: has been called) and
\* has not ended
Tracking ==
    /\ variant \notin QueryVariants
    /\ pc \notin {"idle", "done", "returned", "dm_request_state", "idx_request_state"}
    /\ pc = "wait_for_state" => variant = "wait"

\* the wait for the change (or the lone wait) has not reached its deadline
BeforeDeadline ==
    /\ pc \notin {"after_wait_for_state_change", "after_wait_for_state_update"}
    /\ pc \in WaitPcs => now < start_time + timeout

\* the network thread delivers one message on a subscribed state topic
\* (what arrives after the request has ended is not followed)
OnMessage ==
    /\ nmsgs < MaxMsgs
    /\ pc \notin {"done", "returned"}
    /\ \E d \in SubscribedDevices, body \in WirePayloads :
        /\ device_states' = StoreMessage(d, body)
        /\ LET tracked == /\ d = mqtt_device_id
                          /\ json_loads(body).kind = "dict"
                          /\ Tracking
               st == json_loads(body).state
           IN /\ post_states' = IF tracked THEN post_states \cup {st} ELSE post_states
              /\ post_in_time' = IF tracked /\ BeforeDeadline
                                 THEN post_in_time \cup {st} ELSE post_in_time
        /\ arrived' = IF json_loads(body).kind = "dict"
                      THEN [arrived EXCEPT ![d] = [body |-> body, seq |-> nmsgs + 1,
                                                   at |-> now, n |-> @.n + 1]]
                      ELSE arrived
    /\ nmsgs' = nmsgs + 1
    /\ UNCHANGED <<now, pc, ret, current_state_data, result, calls, command_at>>
    /\ UNCHANGED <<reqVars, waitVars, readVars, otherVars>>

\* ------------------------------------------------------------ the clock
\* Time passes while no request runs and while a wait sleeps; it never
\* passes the end of a sleep.  While the cache is empty the origin of time
\* is arbitrary, so the clock starts with the first entry; a lone wait reads
\* no age, so its call is the origin of time.
Tick ==
    /\ now < MaxTime
    /\ \/ /\ pc = "idle"
          /\ variant # "wait"
          /\ \E d \in SubscribedDevices : device_states[d] # NoData
       \/ pc \in WaitPcs /\ now < wake
    /\ now' = now + 1
    /\ UNCHANGED <<nmsgs, device_states, pc, ret, current_state_data, result, calls, command_at>>
    /\ UNCHANGED <<reqVars, waitVars, postVars, readVars>>
    /\ UNCHANGED <<arrived, otherVars>>

\* ----------------------------------------------------- wait primitives
\* where a wait returns to
AfterWait(kind) ==
    IF variant = "wait" THEN "returned"
    ELSE CASE kind = "wait_for_state" -> "after_wait_for_state"
           [] kind = "wait_for_state_change" -> "after_wait_for_state_change"
           [] kind = "wait_for_state_update" -> "after_wait_for_state_update"

\* the last multiple of the polling interval a wait with timeout t can reach
Span(t) == ((t + PollTicks - 1) \div PollTicks) * PollTicks

\* the call of a wait: start_time = time.time()
BeginWait(kind, t, prev) ==
    /\ pc' = kind
    /\ start_time' = now
    /\ wake' = now
    /\ timeout' = t
    /\ previous_state' = prev
    /\ initial_timestamp' = NoData

\* variant: the loop still runs at the deadline itself
LoopCondition_inclusive == (now - start_time) <= timeout

\* while (time.time() - start_time) < timeout
LoopCondition == (now - start_time) < timeout

\* wait_for_state's test under the lock: mqtt_device_id in self.device_states
HasState(d) == device_states[d] # NoData

\* wait_for_state_change's test under the lock
StateChanged(d) ==
    /\ device_states[d] # NoData
    /\ device_states[d].state # previous_state

\* variant: an entry as old as the initial one counts as an update
StateUpdated_inclusive(d) ==
    /\ device_states[d] # NoData
    /\ \/ initial_timestamp = NoData
       \/ device_states[d].seq >= initial_timestamp.seq

\* wait_for_state_update's test under the lock: the timestamps compare by
\* arrival order
StateUpdated(d) ==
    /\ device_states[d] # NoData
    /\ \/ initial_timestamp = NoData
       \/ device_states[d].seq > initial_timestamp.seq

\* one turn of a polling loop whose test is found: return the entry when
\* found, sleep when not, return None when the time is up
PollLoop(kind, found) ==
    /\ pc = kind
    /\ now >= wake
    /\ IF LoopCondition
       THEN IF found
            THEN /\ pc' = AfterWait(kind)
                 /\ ret' = device_states[mqtt_device_id]
                 /\ wake' = wake
                 /\ calls' = Append(calls, Call(kind, "return", TRUE))
            ELSE /\ wake' = now + PollTicks
                 /\ UNCHANGED <<pc, ret, calls>>
       ELSE /\ pc' = AfterWait(kind)
            /\ ret' = NoData
            /\ wake' = wake
            /\ calls' = Append(calls, Call(kind, "return", FALSE))
    /\ UNCHANGED <<envVars, reqVars, start_time, timeout, previous_state, initial_timestamp>>
    /\ UNCHANGED <<current_state_data, result, command_at, postVars, readVars>>
    /\ UNCHANGED <<arrived, otherVars>>

wait_for_state == PollLoop("wait_for_state", HasState(mqtt_device_id))

wait_for_state_change == PollLoop("wait_for_state_change", StateChanged(mqtt_device_id))

\* wait_for_state_update, from the loop on
wait_for_state_update == PollLoop("wait_for_state_update", StateUpdated(mqtt_device_id))

\* wait_for_state_update, before the loop: the initial timestamp, if any
wait_for_state_update_init ==
    /\ pc = "wait_for_state_update_init"
    /\ pc' = "wait_for_state_update"
    /\ initial_timestamp' = device_states[mqtt_device_id]
    /\ UNCHANGED <<envVars, reqVars, start_time, wake, timeout, previous_state>>
    /\ UNCHANGED <<ret, current_state_data, result, calls, command_at, postVars, readVars>>
    /\ UNCHANGED <<arrived, otherVars>>

\* a wait called on its own, with any timeout and any previous state
CallWait ==
    /\ variant = "wait"
    /\ pc = "idle"
    /\ \E kind \in WaitPcs, d \in RequestDevices, t \in 0..MaxTimeout, prev \in States :
        /\ now + Span(t) <= MaxTime
        /\ kind # "wait_for_state_change" => prev = None
        /\ device_id' = d
        /\ BeginWait(IF kind = "wait_for_state_update"
                     THEN "wait_for_state_update_init" ELSE kind, t, prev)
    /\ UNCHANGED <<envVars, variant, state_value, ret, current_state_data, result, calls, command_at>>
    /\ UNCHANGED <<postVars, readVars>>
    /\ UNCHANGED <<arrived, otherVars>>

\* ------------------------------------------------------- the dispatcher
\* publish_command_to_api(device_id, message, context): True when the
\* outbound call answers 200, False otherwise; it never raises.  The
\* outcome is the environment's choice.
Publish(message, ok) == calls' = Append(calls, Call("publish", message, ok))

\* the capability ends with outcome r
Finish(r) ==
    /\ pc' = "done"
    /\ result' = r

\* the polls the protocol of draft v can need
Budget(v) ==
    CASE v = "dm" -> Span(MQTT_WAIT_FOR_STATE_TIMEOUT) + Span(MQTT_WAIT_FOR_STATE_CHANGE_TIMEOUT)
      [] v = "idx" -> Span(IDX_WAIT_FOR_STATE_TIMEOUT) + Span(IDX_WAIT_FOR_STATE_CHANGE_TIMEOUT)
      [] v = "pers" -> Span(PERS_WAIT_FOR_UPDATE_TIMEOUT)

\* get_cached_state(mqtt_device_id): the entry, whatever its age
get_cached_state(d) == device_states[d]

\* variant: an entry exactly max_age_seconds old is already too old
get_device_state_strict(d, max_age_seconds) ==
    IF device_states[d] # NoData
    THEN IF now - device_states[d].timestamp < max_age_seconds
         THEN device_states[d]
         ELSE NoData
    ELSE NoData

\* get_device_state(mqtt_device_id, max_age_seconds)
get_device_state(d, max_age_seconds) ==
    IF device_states[d] # NoData
    THEN IF now - device_states[d].timestamp <= max_age_seconds
         THEN device_states[d]
         ELSE NoData
    ELSE NoData

\* ------------------------- device_manager.py: get_action_response ("dm")
\* lines 152-182: one on_off capability of one device
DM_Start ==
    /\ variant = "dm"
    /\ pc = "idle"
    /\ now + Budget("dm") <= MaxTime
    /\ \E d \in RequestDevices, v \in BOOLEAN :
        /\ device_id' = d
        /\ state_value' = v
        /\ IF d \in {PUSHER_ID, TEST_PUSHER_ID, WATERING_SYSTEM_ID}
           THEN pc' = "dm_request_state" /\ result' = result
           ELSE Finish(Unhandled)
    /\ UNCHANGED <<envVars, variant, waitVars, ret, current_state_data, calls, command_at>>
    /\ UNCHANGED <<postVars, readVars>>
    /\ UNCHANGED <<arrived, otherVars>>

\* lines 184-191: ask for the current state, then wait for it
DM_RequestState ==
    /\ variant = "dm"
    /\ pc = "dm_request_state"
    /\ \E ok \in BOOLEAN :
        /\ Publish("state", ok)
        /\ IF ok
           THEN /\ BeginWait("wait_for_state", MQTT_WAIT_FOR_STATE_TIMEOUT, None)
                /\ result' = result
           ELSE /\ Finish(get_error_response(2,
                        Msg("Failed to send state request to {device_id}", None, None)))
                /\ UNCHANGED waitVars
    /\ UNCHANGED <<envVars, reqVars, ret, current_state_data, command_at, postVars, readVars>>
    /\ UNCHANGED <<arrived, otherVars>>

\* lines 193-200: no answer ends the capability, an answer is the baseline
DM_Baseline ==
    /\ variant = "dm"
    /\ pc = "after_wait_for_state"
    /\ IF ret = NoData
       THEN /\ Finish(get_error_response(2,
                    Msg("Device {device_id} didn't respond to state request", None, None)))
            /\ current_state_data' = current_state_data
       ELSE /\ current_state_data' = ret
            /\ pc' = "dm_command"
            /\ result' = result
    /\ UNCHANGED <<envVars, reqVars, waitVars, ret, calls, command_at, postVars, readVars>>
    /\ UNCHANGED <<arrived, otherVars>>

\* lines 202-207: the actuating command
DM_Command ==
    /\ variant = "dm"
    /\ pc = "dm_command"
    /\ \E ok \in BOOLEAN :
        /\ Publish(command, ok)
        /\ IF ok
           THEN /\ pc' = "dm_request_state_after"
                /\ command_at' = nmsgs
                /\ result' = result
           ELSE /\ Finish(get_error_response(2,
                        Msg("Failed to send command to {device_id}", None, None)))
                /\ command_at' = command_at
    /\ UNCHANGED <<envVars, reqVars, waitVars, ret, current_state_data, postVars, readVars>>
    /\ UNCHANGED <<arrived, otherVars>>

\* lines 209-218: ask for the state again, then wait for it to change
DM_RequestStateAfter ==
    /\ variant = "dm"
    /\ pc = "dm_request_state_after"
    /\ \E ok \in BOOLEAN :
        /\ Publish("state", ok)
        /\ IF ok
           THEN /\ BeginWait("wait_for_state_change",
                             MQTT_WAIT_FOR_STATE_CHANGE_TIMEOUT, current_state)
                /\ result' = result
           ELSE /\ Finish(get_error_response(2,
                        Msg("Failed to request state after action from {device_id}", None, None)))
                /\ UNCHANGED waitVars
    /\ UNCHANGED <<envVars, reqVars, ret, current_state_data, command_at, postVars, readVars>>
    /\ UNCHANGED <<arrived, otherVars>>

\* variant: any state other than the baseline's counts as success
Matches_any_change(actual_state) == actual_state # current_state

\* lines 228-235 (dm), 428-437 (idx): the verdict on the entry found
Matches(actual_state) == actual_state = expected_state

\* lines 220-239: the fallback read when the wait found nothing, then the verdict
DM_Verify ==
    /\ variant = "dm"
    /\ pc = "after_wait_for_state_change"
    /\ LET state_after_data == IF ret = NoData THEN get_cached_state(mqtt_device_id) ELSE ret
       IN /\ fallback_entry' = IF ret = NoData THEN device_states[mqtt_device_id] ELSE fallback_entry
          /\ fallback_ret' = IF ret = NoData THEN state_after_data ELSE fallback_ret
          /\ verified' = state_after_data
          /\ IF state_after_data # NoData
             THEN IF Matches(state_after_data.state)
                  THEN Finish(DoneResult)
                  ELSE Finish(get_error_response(2,
                           Msg("Action failed: expected {expected_state}, got {actual_state}",
                               expected_state, state_after_data.state)))
             ELSE Finish(get_error_response(2,
                      Msg("No state received from {device_id} after action", None, None)))
    /\ UNCHANGED <<envVars, reqVars, waitVars, ret, current_state_data, calls, command_at, postVars>>
    /\ UNCHANGED <<arrived, otherVars>>

\* ------------------------------------- index.py: handle_action ("idx")
\* lines 375-400: one on_off capability of one device
IDX_Start ==
    /\ variant = "idx"
    /\ pc = "idle"
    /\ now + Budget("idx") <= MaxTime
    /\ \E d \in RequestDevices, v \in BOOLEAN :
        /\ device_id' = d
        /\ state_value' = v
        /\ IF d \in {PUSHER_ID, TEST_PUSHER_ID}
           THEN pc' = "idx_request_state" /\ result' = result
           ELSE Finish(Unhandled)
    /\ UNCHANGED <<envVars, variant, waitVars, ret, current_state_data, calls, command_at>>
    /\ UNCHANGED <<postVars, readVars>>
    /\ UNCHANGED <<arrived, otherVars>>

\* lines 402-404: ask for the current state (the outcome is not looked at),
\* then wait for it
IDX_RequestState ==
    /\ variant = "idx"
    /\ pc = "idx_request_state"
    /\ \E ok \in BOOLEAN : Publish("state", ok)
    /\ BeginWait("wait_for_state", IDX_WAIT_FOR_STATE_TIMEOUT, None)
    /\ UNCHANGED <<envVars, reqVars, ret, current_state_data, result, command_at, postVars, readVars>>
    /\ UNCHANGED <<arrived, otherVars>>

\* lines 405-406: the baseline, None when nothing arrived
IDX_Baseline ==
    /\ variant = "idx"
    /\ pc = "after_wait_for_state"
    /\ current_state_data' = ret
    /\ pc' = "idx_command"
    /\ UNCHANGED <<envVars, reqVars, waitVars, ret, result, calls, command_at, postVars, readVars>>
    /\ UNCHANGED <<arrived, otherVars>>

\* lines 408-410 and 445-451: the actuating command
IDX_Command ==
    /\ variant = "idx"
    /\ pc = "idx_command"
    /\ \E ok \in BOOLEAN :
        /\ Publish(command, ok)
        /\ IF ok
           THEN /\ pc' = "idx_request_state_after"
                /\ command_at' = nmsgs
                /\ result' = result
           ELSE /\ Finish(ErrorResult(Msg("Failed to send command", None, None)))
                /\ command_at' = command_at
    /\ UNCHANGED <<envVars, reqVars, waitVars, ret, current_state_data, postVars, readVars>>
    /\ UNCHANGED <<arrived, otherVars>>

\* lines 412-418: ask for the state again (the outcome is not looked at),
\* then wait for it to change
IDX_RequestStateAfter ==
    /\ variant = "idx"
    /\ pc = "idx_request_state_after"
    /\ \E ok \in BOOLEAN : Publish("state", ok)
    /\ BeginWait("wait_for_state_change", IDX_WAIT_FOR_STATE_CHANGE_TIMEOUT, current_state)
    /\ UNCHANGED <<envVars, reqVars, ret, current_state_data, result, command_at, postVars, readVars>>
    /\ UNCHANGED <<arrived, otherVars>>

\* lines 420-444: the fallback read when the wait found nothing, then the verdict
IDX_Verify ==
    /\ variant = "idx"
    /\ pc = "after_wait_for_state_change"
    /\ LET state_after_data == IF ret = NoData THEN get_cached_state(mqtt_device_id) ELSE ret
       IN /\ fallback_entry' = IF ret = NoData THEN device_states[mqtt_device_id] ELSE fallback_entry
          /\ fallback_ret' = IF ret = NoData THEN state_after_data ELSE fallback_ret
          /\ verified' = state_after_data
          /\ IF state_after_data # NoData
             THEN IF Matches(state_after_data.state)
                  THEN Finish(DoneResult)
                  ELSE Finish(ErrorResult(
                           Msg("Expected '{expected_state}' but got '{actual_state}'",
                               expected_state, state_after_data.state)))
             ELSE Finish(ErrorResult(Msg("Failed to get state after action", None, None)))
    /\ UNCHANGED <<envVars, reqVars, waitVars, ret, current_state_data, calls, command_at, postVars>>
    /\ UNCHANGED <<arrived, otherVars>>

\* ------- index-with-working-persistent-mqtt.py: handle_action ("pers")
\* lines 230-247 and 271-286: one on_off capability of one device; the
\* pusher takes the shortcut, the test pusher reads the cache (the value is
\* only logged) and goes on to the command
PERS_Start ==
    /\ variant = "pers"
    /\ pc = "idle"
    /\ now + Budget("pers") <= MaxTime
    /\ \E d \in RequestDevices, v \in BOOLEAN :
        /\ device_id' = d
        /\ state_value' = v
        /\ IF d = PUSHER_ID
           THEN /\ pc' = "pers_shortcut"
                /\ UNCHANGED <<result, current_state_data>>
           ELSE IF d \in {PUSHER_ID, TEST_PUSHER_ID}
                THEN /\ pc' = "pers_command"
                     /\ current_state_data' = get_device_state(DEVICES(d), PERS_BASELINE_MAX_AGE)
                     /\ result' = result
                ELSE /\ Finish(Unhandled)
                     /\ current_state_data' = current_state_data
    /\ UNCHANGED <<envVars, variant, waitVars, ret, calls, command_at, postVars, readVars>>
    /\ UNCHANGED <<arrived, otherVars>>

\* lines 247-269: the pusher's command is not verified; the error branch
\* formats expected_state and actual_state, which are not bound yet
PERS_Shortcut ==
    /\ variant = "pers"
    /\ pc = "pers_shortcut"
    /\ \E ok \in BOOLEAN :
        /\ Publish(command, ok)
        /\ IF ok
           THEN /\ Finish(DoneResult)
                /\ command_at' = nmsgs
           ELSE /\ Finish(Raised("UnboundLocalError"))
                /\ command_at' = command_at
    /\ UNCHANGED <<envVars, reqVars, waitVars, ret, current_state_data, postVars, readVars>>
    /\ UNCHANGED <<arrived, otherVars>>

\* lines 288-295 and 327-333: the actuating command, then the wait for an update
PERS_Command ==
    /\ variant = "pers"
    /\ pc = "pers_command"
    /\ \E ok \in BOOLEAN :
        /\ Publish(command, ok)
        /\ IF ok
           THEN /\ BeginWait("wait_for_state_update_init", PERS_WAIT_FOR_UPDATE_TIMEOUT, None)
                /\ command_at' = nmsgs
                /\ result' = result
           ELSE /\ Finish(ErrorResult(Msg("Failed to send command to device", None, None)))
                /\ command_at' = command_at
                /\ UNCHANGED waitVars
    /\ UNCHANGED <<envVars, reqVars, ret, current_state_data, postVars, readVars>>
    /\ UNCHANGED <<arrived, otherVars>>

\* lines 297-326: the verdict on the update, or on a fresh enough cached entry
PERS_Verify ==
    /\ variant = "pers"
    /\ pc = "after_wait_for_state_update"
    /\ IF ret # NoData
       THEN /\ verified' = ret
            /\ UNCHANGED <<fallback_entry, fallback_ret>>
            /\ IF Matches(ret.state)
               THEN Finish(DoneResult)
               ELSE Finish(ErrorResult(
                        Msg("Expected state '{expected_state}' but got '{actual_state}'",
                            expected_state, ret.state)))
       ELSE LET cached_state == get_device_state(mqtt_device_id, PERS_FALLBACK_MAX_AGE)
            IN /\ fallback_entry' = device_states[mqtt_device_id]
               /\ fallback_ret' = cached_state
               /\ verified' = cached_state
               /\ IF cached_state # NoData /\ Matches(cached_state.state)
                  THEN Finish(DoneResult)
                  ELSE Finish(ErrorResult(Msg("Failed to get state after action", None, None)))
    /\ UNCHANGED <<envVars, reqVars, waitVars, ret, current_state_data, calls, command_at, postVars>>
    /\ UNCHANGED <<arrived, otherVars>>

\* ------------------------------------------------------- specification
Next ==
    \/ OnMessage
    \/ Tick
    \/ wait_for_state
    \/ wait_for_state_change
    \/ wait_for_state_update_init
    \/ wait_for_state_update
    \/ DM_Start
    \/ DM_RequestState
    \/ DM_Baseline
    \/ DM_Command
    \/ DM_RequestStateAfter
    \/ DM_Verify
    \/ IDX_Start
    \/ IDX_RequestState
    \/ IDX_Baseline
    \/ IDX_Command
    \/ IDX_RequestStateAfter
    \/ IDX_Verify
    \/ PERS_Start
    \/ PERS_Shortcut
    \/ PERS_Command
    \/ PERS_Verify

Spec == Init /\ [][Next]_vars

\* the waits called on their own
WaitInit == Constructed /\ variant = "wait"
WaitNext ==
    \/ OnMessage
    \/ Tick
    \/ CallWait
    \/ wait_for_state
    \/ wait_for_state_change
    \/ wait_for_state_update_init
    \/ wait_for_state_update

\* the scheduler runs a thread that can run, and time goes on
WaitSpec ==
    /\ WaitInit
    /\ [][WaitNext]_vars
    /\ WF_vars(Tick)
    /\ WF_vars(wait_for_state)
    /\ WF_vars(wait_for_state_change)
    /\ WF_vars(wait_for_state_update_init)
    /\ WF_vars(wait_for_state_update)

\* ------------------- device_manager.py: get_query_response ("query")
\* the device lists of a query: one device, or two in either order
QueryRequests ==
    {<<a>> : a \in RequestDevices} \cup {<<a, b>> : a \in RequestDevices, b \in RequestDevices}

\* the timeout of the draft's wait for the state
QueryTimeout ==
    IF variant = "query" THEN MQTT_WAIT_FOR_STATE_TIMEOUT ELSE IDX_QUERY_WAIT_FOR_STATE_TIMEOUT

\* one entry of response_devices
DeviceResponse(id, value, error_message) ==
    [id |-> id, value |-> value, error_message |-> error_message]

\* the handler calls get_query_response(request_id, devices, context)
Q_Start ==
    /\ variant \in QueryVariants
    /\ pc = "idle"
    /\ \E devices \in QueryRequests :
        /\ now + Len(devices) * Span(QueryTimeout) <= MaxTime
        /\ devices_todo' = devices
    /\ pc' = "q_device"
    /\ responses' = <<>>
    /\ UNCHANGED <<envVars, reqVars, waitVars>>
    /\ UNCHANGED <<ret, current_state_data, result, calls, command_at, postVars, readVars>>
    /\ UNCHANGED <<arrived, starts>>
    /\ UNCHANGED <<lockVars, connVars, pubVars, actVars, resub>>

\* lines 92-100 and 141-146: the next device of the loop, or the return
Q_Device ==
    /\ variant \in QueryVariants
    /\ pc = "q_device"
    /\ IF devices_todo = <<>>
       THEN /\ pc' = "done"
            /\ UNCHANGED <<device_id, devices_todo, starts>>
       ELSE /\ pc' = "q_request_state"
            /\ device_id' = Head(devices_todo)
            /\ devices_todo' = Tail(devices_todo)
            /\ starts' = Append(starts, [id |-> Head(devices_todo), at |-> now])
    /\ UNCHANGED <<envVars, variant, state_value, waitVars, ret, current_state_data, result>>
    /\ UNCHANGED <<calls, command_at, postVars, readVars, arrived, responses>>
    /\ UNCHANGED <<lockVars, connVars, pubVars, actVars, resub>>

\* device_manager.py 102-118: ask for the state and, if the request was
\* sent, wait for it; index.py 281-287: wait whatever the dispatcher said
Q_RequestState ==
    /\ variant \in QueryVariants
    /\ pc = "q_request_state"
    /\ \E ok \in BOOLEAN :
        /\ Publish("state", ok)
        /\ IF ok \/ variant = "idx_query"
           THEN /\ BeginWait("wait_for_state", QueryTimeout, None)
                /\ responses' = responses
           ELSE /\ pc' = "q_device"
                /\ responses' = Append(responses, DeviceResponse(device_id, None,
                                     "Failed to send state request to device"))
                /\ UNCHANGED waitVars
    /\ UNCHANGED <<envVars, reqVars, ret, current_state_data, result, command_at>>
    /\ UNCHANGED <<postVars, readVars, arrived, devices_todo, starts>>
    /\ UNCHANGED <<lockVars, connVars, pubVars, actVars, resub>>

\* device_manager.py 120-139: the device's state, or the error when it did
\* not answer; index.py 280-303: value is False unless a record says "on"
Q_Result ==
    /\ variant \in QueryVariants
    /\ pc = "after_wait_for_state"
    /\ pc' = "q_device"
    /\ responses' = Append(responses,
            IF ret # NoData
            THEN DeviceResponse(device_id, ret.state = "on", None)
            ELSE IF variant = "idx_query"
            THEN DeviceResponse(device_id, FALSE, None)
            ELSE DeviceResponse(device_id, None, "Device did not respond to state request"))
    /\ UNCHANGED <<envVars, reqVars, waitVars, ret, current_state_data, result, calls, command_at>>
    /\ UNCHANGED <<postVars, readVars, arrived, devices_todo, starts>>
    /\ UNCHANGED <<lockVars, connVars, pubVars, actVars, resub>>

QueryInit == Constructed /\ variant \in QueryVariants
QueryNext ==
    \/ OnMessage
    \/ Tick
    \/ wait_for_state
    \/ Q_Start
    \/ Q_Device
    \/ Q_RequestState
    \/ Q_Result

QuerySpec == QueryInit /\ [][QueryNext]_vars

\* ------------- the cache's lock: _on_message against wait_for_state ("lock")
\* Both threads are followed from one acquisition of state_lock to the next.
\* The timeout of the wait is a number of turns of its loop.

\* the calling thread enters wait_for_state(mqtt_device_id, timeout)
L_Call ==
    /\ variant = "lock"
    /\ main_pc = "idle"
    /\ \E d \in RequestDevices : device_id' = d
    /\ main_pc' = "loop"
    /\ polls_left' = MaxPolls
    /\ UNCHANGED <<envVars, variant, state_value, waitVars, pc, ret, current_state_data, result>>
    /\ UNCHANGED <<calls, command_at, postVars, readVars, arrived, queryVars>>
    /\ UNCHANGED <<state_lock, net_pc, net_msg>>
    /\ UNCHANGED <<connVars, pubVars, actVars, resub>>

\* line 120 and 128-129: the loop condition, None when the time is up
L_Loop ==
    /\ main_pc = "loop"
    /\ IF polls_left > 0
       THEN /\ main_pc' = "acquire"
            /\ polls_left' = polls_left - 1
            /\ ret' = ret
       ELSE /\ main_pc' = "returned"
            /\ ret' = NoData
            /\ polls_left' = polls_left
    /\ UNCHANGED <<envVars, reqVars, waitVars, pc, current_state_data, result>>
    /\ UNCHANGED <<calls, command_at, postVars, readVars, arrived, queryVars>>
    /\ UNCHANGED <<state_lock, net_pc, net_msg>>
    /\ UNCHANGED <<connVars, pubVars, actVars, resub>>

\* line 121: with self.state_lock, entered when the lock is free
L_Acquire ==
    /\ main_pc = "acquire"
    /\ state_lock = None
    /\ state_lock' = "main"
    /\ main_pc' = "locked"
    /\ UNCHANGED <<envVars, reqVars, waitVars, pc, ret, current_state_data, result>>
    /\ UNCHANGED <<calls, command_at, postVars, readVars, arrived, queryVars>>
    /\ UNCHANGED <<net_pc, net_msg, polls_left>>
    /\ UNCHANGED <<connVars, pubVars, actVars, resub>>

\* variant: the sleep is taken inside the with block
L_Test_sleeps_locked ==
    /\ main_pc = "locked"
    /\ IF HasState(mqtt_device_id)
       THEN /\ ret' = device_states[mqtt_device_id]
            /\ main_pc' = "returned"
            /\ state_lock' = None
       ELSE /\ ret' = ret
            /\ main_pc' = "sleep"
            /\ state_lock' = state_lock
    /\ UNCHANGED <<envVars, reqVars, waitVars, pc, current_state_data, result>>
    /\ UNCHANGED <<calls, command_at, postVars, readVars, arrived, queryVars>>
    /\ UNCHANGED <<net_pc, net_msg, polls_left>>
    /\ UNCHANGED <<connVars, pubVars, actVars, resub>>

\* lines 122-126: the test under the lock; the with block is left, and the
\* lock released, by the return as well as on the way to the sleep
L_Test ==
    /\ main_pc = "locked"
    /\ IF HasState(mqtt_device_id)
       THEN /\ ret' = device_states[mqtt_device_id]
            /\ main_pc' = "returned"
       ELSE /\ ret' = ret
            /\ main_pc' = "sleep"
    /\ state_lock' = None
    /\ UNCHANGED <<envVars, reqVars, waitVars, pc, current_state_data, result>>
    /\ UNCHANGED <<calls, command_at, postVars, readVars, arrived, queryVars>>
    /\ UNCHANGED <<net_pc, net_msg, polls_left>>
    /\ UNCHANGED <<connVars, pubVars, actVars, resub>>

\* line 126: time.sleep(0.1) ends
L_Wake ==
    /\ main_pc = "sleep"
    /\ main_pc' = "loop"
    /\ UNCHANGED <<envVars, reqVars, waitVars, pc, ret, current_state_data, result>>
    /\ UNCHANGED <<calls, command_at, postVars, readVars, arrived, queryVars>>
    /\ UNCHANGED <<state_lock, net_pc, net_msg, polls_left>>
    /\ UNCHANGED <<connVars, pubVars, actVars, resub>>

\* lines 41-49: the network thread takes a message; a body json.loads
\* rejects raises before the lock and is dropped
N_Receive ==
    /\ variant = "lock"
    /\ net_pc = "idle"
    /\ nmsgs < MaxMsgs
    /\ \E d \in SubscribedDevices, body \in WirePayloads :
        IF json_loads(body).kind \notin DecodeErrors
        THEN /\ net_pc' = "acquire"
             /\ net_msg' = [d |-> d, body |-> body]
             /\ nmsgs' = nmsgs
        ELSE /\ nmsgs' = nmsgs + 1
             /\ UNCHANGED <<net_pc, net_msg>>
    /\ UNCHANGED <<now, device_states, reqVars, waitVars, pc, ret, current_state_data, result>>
    /\ UNCHANGED <<calls, command_at, postVars, readVars, arrived, queryVars>>
    /\ UNCHANGED <<state_lock, main_pc, polls_left>>
    /\ UNCHANGED <<connVars, pubVars, actVars, resub>>

\* line 51: with self.state_lock, entered when the lock is free
N_Acquire ==
    /\ net_pc = "acquire"
    /\ state_lock = None
    /\ state_lock' = "net"
    /\ net_pc' = "locked"
    /\ UNCHANGED <<envVars, reqVars, waitVars, pc, ret, current_state_data, result>>
    /\ UNCHANGED <<calls, command_at, postVars, readVars, arrived, queryVars>>
    /\ UNCHANGED <<net_msg, main_pc, polls_left>>
    /\ UNCHANGED <<connVars, pubVars, actVars, resub>>

\* lines 52-60: the entry is built and stored under the lock (a decoded
\* value without .get raises here and stores nothing); the lock is released
N_Store ==
    /\ net_pc = "locked"
    /\ device_states' = StoreMessage(net_msg.d, net_msg.body)
    /\ arrived' = IF json_loads(net_msg.body).kind = "dict"
                  THEN [arrived EXCEPT ![net_msg.d] =
                           [body |-> net_msg.body, seq |-> nmsgs + 1, at |-> now, n |-> @.n + 1]]
                  ELSE arrived
    /\ nmsgs' = nmsgs + 1
    /\ state_lock' = None
    /\ net_pc' = "idle"
    /\ net_msg' = NoDelivery
    /\ UNCHANGED <<now, reqVars, waitVars, pc, ret, current_state_data, result>>
    /\ UNCHANGED <<calls, command_at, postVars, readVars, queryVars>>
    /\ UNCHANGED <<main_pc, polls_left>>
    /\ UNCHANGED <<connVars, pubVars, actVars, resub>>

LockInit == Constructed /\ variant = "lock"
LockNext ==
    \/ L_Call
    \/ L_Loop
    \/ L_Acquire
    \/ L_Test
    \/ L_Wake
    \/ N_Receive
    \/ N_Acquire
    \/ N_Store

\* each thread is scheduled again and again; a thread that asks for the lock
\* gets it if the lock is free again and again
LockSpec ==
    /\ LockInit
    /\ [][LockNext]_vars
    /\ WF_vars(L_Loop)
    /\ SF_vars(L_Acquire)
    /\ WF_vars(L_Test)
    /\ WF_vars(L_Wake)
    /\ SF_vars(N_Acquire)
    /\ WF_vars(N_Store)

\* ------------------------------------------- the command dispatcher
\* the keys of DEVICES
KnownDevices == {TEST_PUSHER_ID, PUSHER_ID, WATERING_SYSTEM_ID}
UNKNOWN_ID == "no-such-device"

\* the messages the protocols send, and one str.encode('ascii') rejects
Messages == {"state", "1", "0", "non-ascii"}

\* context.token: a dict with an access_token the service accepts, one it
\* rejects, a dict without the key, and no dict at all
Tokens == {"valid", "rejected", "no access_token", "not a dict"}

\* requests.post: the status of the answer, or the exception raised
Responses == {"200", "401", "500", "ConnectionError"}

\* what the service can answer to a call made with token
ResponsesTo(token) == IF token = "rejected" THEN {"401", "ConnectionError"} ELSE Responses

\* variant: any answer of the service counts as sent
publish_command_to_api_any_answer(id, message, token, response) ==
    IF id \notin KnownDevices THEN FALSE
    ELSE IF message = "non-ascii" THEN FALSE
    ELSE IF token \in {"no access_token", "not a dict"} THEN FALSE
    ELSE response # "ConnectionError"

\* publish_command_to_api(device_id, message, context) with the service
\* answering response: each lookup and call that raises is caught by the
\* except branch, which returns False
publish_command_to_api(id, message, token, response) ==
    IF id \notin KnownDevices THEN FALSE                \* KeyError
    ELSE IF message = "non-ascii" THEN FALSE             \* UnicodeEncodeError
    ELSE IF token \in {"no access_token", "not a dict"} THEN FALSE  \* KeyError, TypeError
    ELSE IF response = "ConnectionError" THEN FALSE
    ELSE response = "200"

\* a call of the dispatcher, on its own
P_Publish ==
    /\ variant = "pub"
    /\ pub_in = NoPublish
    /\ \E id \in KnownDevices \cup {UNKNOWN_ID}, message \in Messages, token \in Tokens :
        \E response \in ResponsesTo(token) :
            /\ pub_in' = [device_id |-> id, message |-> message, token |-> token,
                          response |-> response]
            /\ pub_out' = publish_command_to_api(id, message, token, response)
    /\ UNCHANGED <<envVars, reqVars, waitVars, pc, ret, current_state_data, result, calls>>
    /\ UNCHANGED <<command_at, postVars, readVars, arrived, queryVars, lockVars, connVars, actVars, resub>>

PubInit == Constructed /\ variant = "pub"
PubNext == P_Publish \/ OnMessage
PubSpec == PubInit /\ [][PubNext]_vars

\* ------------- the connection: handler, connect_and_subscribe, cleanup
\* everything but the connection
requestVars == <<envVars, reqVars, waitVars, pc, ret, current_state_data, result, calls,
                 command_at, postVars, readVars, arrived, queryVars, lockVars, pubVars, actVars>>
bridgeVars == <<requestVars, resub>>

RequestTypes == {"unlink", "discovery", "query", "action", "unknown"}

\* mqtt_device_ids of the handler, as topics
StateTopics == <<PUSHER_DEVICE_ID, TEST_PUSHER_DEVICE_ID>>

\* one entry of the history of subscribe calls: the topic, the result, and
\* what the caller had seen of the connection
Subscription(topic, ok) ==
    [topic |-> topic, ok |-> ok, connected |-> connected,
     connection_event |-> connection_event, transport |-> transport]

\* variant: only a client that believes itself connected is stopped
cleanup_if_connected ==
    LET stops == client /\ connected IN
    /\ loop_running' = IF stops THEN FALSE ELSE loop_running
    /\ transport' = IF stops THEN "closed" ELSE transport
    /\ broker_subs' = IF stops THEN {} ELSE broker_subs
    /\ cleanup_calls' = cleanup_calls + 1
    /\ last_cleanup' = [called |-> TRUE, loop_running |-> loop_running',
                        transport |-> transport', raised |-> FALSE]
    /\ UNCHANGED <<client, connected, connection_event>>

\* cleanup(): with a client, loop_stop() and disconnect(), which answer with
\* a code whatever the state of the connection; nothing without a client
cleanup ==
    /\ loop_running' = IF client THEN FALSE ELSE loop_running
    /\ transport' = IF client THEN "closed" ELSE transport
    /\ broker_subs' = IF client THEN {} ELSE broker_subs
    /\ cleanup_calls' = cleanup_calls + 1
    /\ last_cleanup' = [called |-> TRUE, loop_running |-> loop_running',
                        transport |-> transport', raised |-> FALSE]
    /\ UNCHANGED <<client, connected, connection_event>>

\* index.py 467-492: the event is read; a query or an action creates the
\* client and connects; an event without its keys raises
handler_start ==
    /\ variant = "idx"
    /\ hpc = "start"
    /\ \E well_formed \in BOOLEAN, t \in RequestTypes :
        IF ~well_formed
        THEN /\ hpc' = "finally"
             /\ hresult' = "INTERNAL_ERROR"
             /\ UNCHANGED <<request_type, mqtt_client>>
        ELSE /\ request_type' = t
             /\ hresult' = hresult
             /\ IF t \in {"query", "action"}
                THEN mqtt_client' = TRUE /\ hpc' = "cs_setup"
                ELSE mqtt_client' = mqtt_client /\ hpc' = "route"
    /\ UNCHANGED <<bridgeVars, paho, topics_todo, cs_result, sub_log, cleanup_calls, last_cleanup>>

\* mqtt_client.py 67-88: the client is created and configured, the network
\* thread started, the connect sent; each of the steps can raise
CS_Setup ==
    /\ hpc = "cs_setup"
    /\ \E outcome \in {"Client raises", "tls_set raises", "connect raises", "sent"} :
        /\ client' = (outcome # "Client raises")
        /\ loop_running' = (outcome \in {"connect raises", "sent"})
        /\ transport' = IF outcome = "sent" THEN "connecting" ELSE transport
        /\ hpc' = IF outcome = "sent" THEN "cs_wait" ELSE "cs_except"
    /\ UNCHANGED <<bridgeVars, request_type, mqtt_client, connected, connection_event, broker_subs>>
    /\ UNCHANGED <<topics_todo, cs_result, hresult, sub_log, cleanup_calls, last_cleanup>>

\* variant: any answer of the broker counts as connected
on_connect_any_rc ==
    /\ variant = "idx"
    /\ loop_running
    /\ transport = "connecting"
    /\ \E rc \in {0, 5} :
        /\ connected' = TRUE
        /\ transport' = IF rc = 0 THEN "open" ELSE "closed"
    /\ connection_event' = TRUE
    /\ UNCHANGED <<bridgeVars, hpc, request_type, mqtt_client, client, loop_running, broker_subs>>
    /\ UNCHANGED <<topics_todo, cs_result, hresult, sub_log, cleanup_calls, last_cleanup>>

\* mqtt_client.py 28-37: the network thread reports the broker's answer
on_connect ==
    /\ variant = "idx"
    /\ loop_running
    /\ transport = "connecting"
    /\ \E rc \in {0, 5} :
        /\ connected' = (rc = 0)
        /\ transport' = IF rc = 0 THEN "open" ELSE "closed"
    /\ connection_event' = TRUE
    /\ UNCHANGED <<bridgeVars, hpc, request_type, mqtt_client, client, loop_running, broker_subs>>
    /\ UNCHANGED <<topics_todo, cs_result, hresult, sub_log, cleanup_calls, last_cleanup>>

\* variant: the subscriptions follow the wait whatever it answered
CS_WaitForConnection_unchecked ==
    /\ hpc = "cs_wait"
    /\ hpc' = "cs_subscribe"
    /\ topics_todo' = StateTopics
    /\ UNCHANGED <<bridgeVars, request_type, mqtt_client, paho>>
    /\ UNCHANGED <<cs_result, hresult, sub_log, cleanup_calls, last_cleanup>>

\* the connection is lost while the request is being handled: the client
\* registers no on_disconnect, so only the network thread notices, which
\* connects again; the broker keeps nothing of the old session
connection_lost ==
    /\ variant = "idx"
    /\ hpc \in {"after_connect", "route"}
    /\ cs_result = "True"
    /\ loop_running
    /\ transport = "open"
    /\ transport' = "connecting"
    /\ broker_subs' = {}
    /\ UNCHANGED <<bridgeVars, hpc, request_type, mqtt_client, client, loop_running>>
    /\ UNCHANGED <<connected, connection_event, topics_todo, cs_result, hresult, sub_log>>
    /\ UNCHANGED <<cleanup_calls, last_cleanup>>

\* mqtt_client.py 90-95: connection_event.wait(timeout) answers True once
\* the event is set and False when the timeout passes without it
CS_WaitForConnection ==
    /\ hpc = "cs_wait"
    /\ IF connection_event /\ connected
       THEN /\ hpc' = "cs_subscribe"
            /\ topics_todo' = StateTopics
       ELSE /\ hpc' = "cs_except"
            /\ topics_todo' = topics_todo
    /\ UNCHANGED <<bridgeVars, request_type, mqtt_client, paho>>
    /\ UNCHANGED <<cs_result, hresult, sub_log, cleanup_calls, last_cleanup>>

\* mqtt_client.py 97-107: one subscribe per topic, its result only logged;
\* True after the last one
CS_Subscribe ==
    /\ hpc = "cs_subscribe"
    /\ IF topics_todo # <<>>
       THEN /\ \E ok \in BOOLEAN :
                /\ sub_log' = Append(sub_log, Subscription(Head(topics_todo), ok))
                /\ broker_subs' = IF ok THEN broker_subs \cup {Head(topics_todo)}
                                  ELSE broker_subs
            /\ topics_todo' = Tail(topics_todo)
            /\ UNCHANGED <<hpc, cs_result>>
       ELSE /\ cs_result' = "True"
            /\ hpc' = "after_connect"
            /\ UNCHANGED <<topics_todo, sub_log, broker_subs>>
    /\ UNCHANGED <<bridgeVars, request_type, mqtt_client, hresult, cleanup_calls, last_cleanup>>
    /\ UNCHANGED <<client, loop_running, transport, connected, connection_event>>

\* mqtt_client.py 109-112: any exception ends in cleanup() and False
CS_Except ==
    /\ hpc = "cs_except"
    /\ cleanup
    /\ cs_result' = "False"
    /\ hpc' = "after_connect"
    /\ UNCHANGED <<bridgeVars, request_type, mqtt_client, topics_todo, hresult, sub_log>>

\* variant: the request is handled whatever the connect returned
handler_connected_unchecked ==
    /\ variant = "idx"
    /\ hpc = "after_connect"
    /\ hpc' = "route"
    /\ hresult' = hresult
    /\ UNCHANGED <<bridgeVars, request_type, mqtt_client, paho>>
    /\ UNCHANGED <<topics_todo, cs_result, sub_log, cleanup_calls, last_cleanup>>

\* index.py 486-492: a failed connect is answered at once
handler_connected ==
    /\ variant = "idx"
    /\ hpc = "after_connect"
    /\ IF cs_result = "True"
       THEN hpc' = "route" /\ hresult' = hresult
       ELSE hpc' = "finally" /\ hresult' = "INTERNAL_ERROR"
    /\ UNCHANGED <<bridgeVars, request_type, mqtt_client, paho>>
    /\ UNCHANGED <<topics_todo, cs_result, sub_log, cleanup_calls, last_cleanup>>

\* index.py 494-526: the request is routed; the handling returns a result
\* or raises.  A query or an action that gets as far as its device asks
\* for the state and waits for it, which the history of calls records.
handler_route ==
    /\ variant = "idx"
    /\ hpc = "route"
    /\ \E raises, ok, found \in BOOLEAN :
        /\ hresult' = IF request_type = "unknown" THEN "INVALID_ACTION"
                      ELSE IF raises THEN "INTERNAL_ERROR" ELSE "result"
        /\ calls' = IF request_type \in {"query", "action"} /\ ~raises
                    THEN calls \o <<Call("publish", "state", ok),
                                    Call("wait_for_state", "return", found)>>
                    ELSE calls
    /\ hpc' = "finally"
    /\ UNCHANGED <<envVars, reqVars, waitVars, pc, ret, current_state_data, result>>
    /\ UNCHANGED <<command_at, postVars, readVars, arrived, queryVars, lockVars, pubVars, actVars, resub>>
    /\ UNCHANGED <<request_type, mqtt_client, paho>>
    /\ UNCHANGED <<topics_todo, cs_result, sub_log, cleanup_calls, last_cleanup>>

\* variant: the handler returns without its finally
handler_finally_skipped ==
    /\ variant = "idx"
    /\ hpc = "finally"
    /\ hpc' = "returned"
    /\ UNCHANGED <<bridgeVars, request_type, mqtt_client, paho, topics_todo>>
    /\ UNCHANGED <<cs_result, hresult, sub_log, cleanup_calls, last_cleanup>>

\* index.py 528-532: finally
handler_finally ==
    /\ variant = "idx"
    /\ hpc = "finally"
    /\ IF mqtt_client
       THEN cleanup
       ELSE UNCHANGED <<paho, cleanup_calls, last_cleanup>>
    /\ hpc' = "returned"
    /\ UNCHANGED <<bridgeVars, request_type, mqtt_client, topics_todo, cs_result, hresult, sub_log>>

\* cleanup() called from outside a handler's run: before any connect, or
\* again after the handler has returned
CallCleanup ==
    /\ variant = "idx"
    /\ hpc \in {"start", "returned"}
    /\ cleanup_calls < MaxCleanups
    /\ cleanup
    /\ UNCHANGED <<bridgeVars, hpc, request_type, mqtt_client, topics_todo, cs_result, hresult, sub_log>>

\* ---- the long-lived manager of the persistent draft
\* variant: a manager whose connect failed is connected again by the next request
P_handler_start_reconnects ==
    /\ variant = "pers"
    /\ hpc \in {"start", "returned"}
    /\ \E well_formed \in BOOLEAN, t \in RequestTypes :
        IF ~well_formed
        THEN /\ hpc' = "returned"
             /\ hresult' = "INTERNAL_ERROR"
             /\ UNCHANGED <<request_type, mqtt_client>>
        ELSE /\ request_type' = t
             /\ hresult' = None
             /\ mqtt_client' = TRUE
             /\ hpc' = IF mqtt_client /\ cs_result = "True" THEN "route" ELSE "m_connect"
    /\ UNCHANGED <<bridgeVars, paho, topics_todo, cs_result, sub_log, cleanup_calls, last_cleanup>>

\* index-with-working-persistent-mqtt.py 347-360: the event is read and the
\* SmartHomeHandler built, whose DeviceManager asks for the manager;
\* mqtt_manager.py 220-226: the first request of the process creates it
P_handler_start ==
    /\ variant = "pers"
    /\ hpc \in {"start", "returned"}
    /\ \E well_formed \in BOOLEAN, t \in RequestTypes :
        IF ~well_formed
        THEN /\ hpc' = "returned"
             /\ hresult' = "INTERNAL_ERROR"
             /\ UNCHANGED <<request_type, mqtt_client>>
        ELSE /\ request_type' = t
             /\ hresult' = None
             /\ mqtt_client' = TRUE
             /\ hpc' = IF mqtt_client THEN "route" ELSE "m_connect"
    /\ UNCHANGED <<bridgeVars, paho, topics_todo, cs_result, sub_log, cleanup_calls, last_cleanup>>

\* mqtt_manager.py 88-109 and 122-124: the client is created and configured,
\* the connect sent, then the network thread started; an exception is
\* answered with False
M_Connect ==
    /\ hpc = "m_connect"
    /\ \E outcome \in {"Client raises", "tls_set raises", "connect raises", "sent"} :
        /\ client' = (outcome # "Client raises")
        /\ loop_running' = (outcome = "sent")
        /\ transport' = IF outcome = "sent" THEN "connecting" ELSE transport
        /\ hpc' = IF outcome = "sent" THEN "m_wait" ELSE "m_after"
        /\ cs_result' = IF outcome = "sent" THEN cs_result ELSE "False"
    /\ UNCHANGED <<bridgeVars, request_type, mqtt_client, connected, connection_event, broker_subs>>
    /\ UNCHANGED <<topics_todo, hresult, sub_log, cleanup_calls, last_cleanup>>

\* topics a subscribe_to_device has added to subscribed_topics
subscribed_topics == {sub_log[i].topic : i \in {j \in 1..Len(sub_log) : sub_log[j].ok}}

\* the subscribe calls of a reconnection, one per subscribed topic
RECURSIVE Resubscribed(_, _)
Resubscribed(log, topics) ==
    IF topics = {} THEN log
    ELSE LET t == CHOOSE x \in topics : TRUE IN
         Resubscribed(Append(log, [topic |-> t, ok |-> TRUE, connected |-> TRUE,
                                   connection_event |-> FALSE, transport |-> "open"]),
                      topics \ {t})

\* mqtt_manager.py 42-53: the network thread reports the broker's answer,
\* and subscribes again to what was subscribed
M_on_connect ==
    /\ variant = "pers"
    /\ loop_running
    /\ transport = "connecting"
    /\ \E rc \in {0, 5} :
        /\ connected' = (rc = 0)
        /\ transport' = IF rc = 0 THEN "open" ELSE "closed"
        /\ sub_log' = IF rc = 0 THEN Resubscribed(sub_log, subscribed_topics) ELSE sub_log
        /\ broker_subs' = IF rc = 0 THEN subscribed_topics ELSE broker_subs
    /\ UNCHANGED <<bridgeVars, hpc, request_type, mqtt_client, client, loop_running>>
    /\ UNCHANGED <<connection_event, topics_todo, cs_result, hresult, cleanup_calls, last_cleanup>>

\* mqtt_manager.py 55-60: the connection is lost; the network thread will
\* try to connect again
M_on_disconnect ==
    /\ variant = "pers"
    /\ loop_running
    /\ transport = "open"
    /\ Len(sub_log) < MaxSubs
    /\ connected' = FALSE
    /\ transport' = "connecting"
    /\ broker_subs' = {}
    /\ UNCHANGED <<bridgeVars, hpc, request_type, mqtt_client, client, loop_running>>
    /\ UNCHANGED <<connection_event, topics_todo, cs_result, hresult, sub_log>>
    /\ UNCHANGED <<cleanup_calls, last_cleanup>>

\* mqtt_manager.py 111-124: connected is polled until the timeout
M_WaitForConnection ==
    /\ hpc = "m_wait"
    /\ cs_result' = IF connected THEN "True" ELSE "False"
    /\ hpc' = "m_after"
    /\ UNCHANGED <<bridgeVars, request_type, mqtt_client, paho>>
    /\ UNCHANGED <<topics_todo, hresult, sub_log, cleanup_calls, last_cleanup>>

\* mqtt_manager.py 228-236: the devices are subscribed after a successful
\* connect; the manager is returned either way
get_mqtt_manager ==
    /\ hpc = "m_after"
    /\ IF cs_result = "True"
       THEN /\ topics_todo' = StateTopics
            /\ hpc' = "m_subscribe"
       ELSE /\ topics_todo' = topics_todo
            /\ hpc' = "route"
    /\ UNCHANGED <<bridgeVars, request_type, mqtt_client, paho>>
    /\ UNCHANGED <<cs_result, hresult, sub_log, cleanup_calls, last_cleanup>>

\* mqtt_manager.py 126-146, called at 230-231 with its result dropped
subscribe_to_device ==
    /\ hpc = "m_subscribe"
    /\ IF topics_todo # <<>>
       THEN /\ IF client /\ connected
               THEN \E ok \in BOOLEAN :
                        /\ sub_log' = Append(sub_log, Subscription(Head(topics_todo), ok))
                        /\ broker_subs' = IF ok THEN broker_subs \cup {Head(topics_todo)}
                                          ELSE broker_subs
               ELSE UNCHANGED <<sub_log, broker_subs>>
            /\ topics_todo' = Tail(topics_todo)
            /\ hpc' = hpc
       ELSE /\ hpc' = "route"
            /\ UNCHANGED <<topics_todo, sub_log, broker_subs>>
    /\ UNCHANGED <<bridgeVars, request_type, mqtt_client>>
    /\ UNCHANGED <<client, loop_running, transport, connected, connection_event>>
    /\ UNCHANGED <<cs_result, hresult, cleanup_calls, last_cleanup>>

\* index-with-working-persistent-mqtt.py 362-389: the request is routed and
\* answered; the handler has no finally
P_handler_route ==
    /\ variant = "pers"
    /\ hpc = "route"
    /\ \E raises \in BOOLEAN :
        hresult' = IF request_type = "unknown" THEN "INVALID_ACTION"
                   ELSE IF raises THEN "INTERNAL_ERROR" ELSE "result"
    /\ hpc' = "returned"
    /\ UNCHANGED <<bridgeVars, request_type, mqtt_client, paho>>
    /\ UNCHANGED <<topics_todo, cs_result, sub_log, cleanup_calls, last_cleanup>>

\* mqtt_manager.py 208-213: with a client, loop_stop() and disconnect()
disconnect ==
    /\ loop_running' = IF client THEN FALSE ELSE loop_running
    /\ transport' = IF client THEN "closed" ELSE transport
    /\ broker_subs' = IF client THEN {} ELSE broker_subs
    /\ cleanup_calls' = cleanup_calls + 1
    /\ last_cleanup' = [called |-> TRUE, loop_running |-> loop_running',
                        transport |-> transport', raised |-> FALSE]
    /\ UNCHANGED <<client, connected, connection_event>>

\* disconnect() called on the manager between two requests
CallDisconnect ==
    /\ variant = "pers"
    /\ hpc \in {"start", "returned"}
    /\ cleanup_calls < MaxCleanups
    /\ disconnect
    /\ UNCHANGED <<bridgeVars, hpc, request_type, mqtt_client, topics_todo, cs_result, hresult, sub_log>>

ConnInit == Constructed /\ variant \in {"idx", "pers"}
ConnNext ==
    \/ connection_lost
    \/ P_handler_start
    \/ M_Connect
    \/ M_on_connect
    \/ M_on_disconnect
    \/ M_WaitForConnection
    \/ get_mqtt_manager
    \/ subscribe_to_device
    \/ P_handler_route
    \/ CallDisconnect
    \/ handler_start
    \/ CS_Setup
    \/ on_connect
    \/ CS_WaitForConnection
    \/ CS_Subscribe
    \/ CS_Except
    \/ handler_connected
    \/ handler_route
    \/ handler_finally
    \/ CallCleanup

ConnSpec == ConnInit /\ [][ConnNext]_vars

\* ------ the manager's two threads on subscribed_topics, step by step
\* mqtt_manager.py 42-46 and 51-53: the network thread reports the broker's
\* answer; on rc = 0 it enters the loop over self.subscribed_topics, whose
\* iterator remembers the size of the set
R_on_connect ==
    /\ variant = "pers"
    /\ loop_running
    /\ transport = "connecting"
    /\ ~resub.active
    /\ \E rc \in {0, 5} :
        /\ connected' = (rc = 0)
        /\ transport' = IF rc = 0 THEN "open" ELSE "closed"
        /\ resub' = IF rc = 0
                    THEN [active |-> TRUE, of |-> subscribed_topics,
                          left |-> subscribed_topics, raised |-> FALSE]
                    ELSE resub
    /\ UNCHANGED <<requestVars, hpc, request_type, mqtt_client, client, loop_running>>
    /\ UNCHANGED <<connection_event, broker_subs, topics_todo, cs_result, hresult, sub_log>>
    /\ UNCHANGED <<cleanup_calls, last_cleanup>>

\* mqtt_manager.py 47-49: one turn of `for topic in self.subscribed_topics`.
\* The iterator raises RuntimeError when the set has changed size since the
\* loop began; otherwise the loop ends, or subscribes to one more topic
R_resubscribe ==
    /\ variant = "pers"
    /\ resub.active
    /\ IF subscribed_topics # resub.of
       THEN /\ resub' = [resub EXCEPT !.active = FALSE, !.raised = TRUE]
            /\ UNCHANGED <<sub_log, broker_subs>>
       ELSE IF resub.left = {}
       THEN /\ resub' = [resub EXCEPT !.active = FALSE]
            /\ UNCHANGED <<sub_log, broker_subs>>
       ELSE \E t \in resub.left :
               /\ sub_log' = Resubscribed(sub_log, {t})
               /\ broker_subs' = broker_subs \cup {t}
               /\ resub' = [resub EXCEPT !.left = @ \ {t}]
    /\ UNCHANGED <<requestVars, hpc, request_type, mqtt_client>>
    /\ UNCHANGED <<client, loop_running, transport, connected, connection_event>>
    /\ UNCHANGED <<topics_todo, cs_result, hresult, cleanup_calls, last_cleanup>>

\* the network thread runs one callback at a time: the connection is seen
\* lost only outside _on_connect
R_on_disconnect == ~resub.active /\ M_on_disconnect

ResubInit == Constructed /\ variant = "pers"
ResubNext ==
    \/ P_handler_start
    \/ M_Connect
    \/ R_on_connect
    \/ R_resubscribe
    \/ R_on_disconnect
    \/ M_WaitForConnection
    \/ get_mqtt_manager
    \/ subscribe_to_device
    \/ P_handler_route
    \/ CallDisconnect

ResubSpec == ResubInit /\ [][ResubNext]_vars

\* ------------------------ the operations of the client, side by side
\* get_cached_state called on its own (mqtt_client.py 152-155)
CallRead ==
    /\ variant = "wait"
    /\ pc = "idle"
    /\ \E d \in RequestDevices :
        /\ device_id' = d
        /\ fallback_ret' = get_cached_state(DEVICES(d))
        /\ calls' = Append(calls, Call("get_cached_state", "return",
                                      get_cached_state(DEVICES(d)) # NoData))
    /\ pc' = "returned"
    /\ UNCHANGED <<envVars, variant, state_value, waitVars, ret, current_state_data, result>>
    /\ UNCHANGED <<command_at, postVars, fallback_entry, verified>>
    /\ UNCHANGED <<arrived, otherVars>>

\* the network thread of the handler's client delivers a message: the
\* connection is established and the broker delivers the topic
Delivery ==
    /\ variant = "idx"
    /\ loop_running
    /\ transport = "open"
    /\ OnMessage
    /\ \A d \in SubscribedDevices : device_states'[d] # device_states[d] => d \in broker_subs

\* the waits and the read called on their own, and the handler of index.py
\* with its connect, its deliveries and its cleanup
CacheInit == Constructed /\ variant \in {"wait", "idx"}
CacheNext ==
    \/ variant = "wait" /\ WaitNext
    \/ CallRead
    \/ Delivery
    \/ handler_start
    \/ CS_Setup
    \/ on_connect
    \/ connection_lost
    \/ CS_WaitForConnection
    \/ CS_Subscribe
    \/ CS_Except
    \/ handler_connected
    \/ handler_route
    \/ handler_finally
    \/ CallCleanup

CacheSpec == CacheInit /\ [][CacheNext]_vars

\* ---------- the action request: the loops over devices and capabilities
\* One device of payload["devices"]: its id and the desired values of its
\* on_off capabilities, in order.
CapabilityLists == {<<TRUE>>, <<TRUE, FALSE>>}
DeviceEntries == [id : RequestDevices, values : CapabilityLists]
ActionRequests ==
    {<<a>> : a \in DeviceEntries}
    \cup {<<a, b>> : a \in {e \in DeviceEntries : Len(e.values) = 1},
                     b \in {e \in DeviceEntries : Len(e.values) = 1}}

\* one entry of response_devices of an action response
ActionDeviceResponse(id, capabilities) == [id |-> id, capabilities |-> capabilities]

\* device_manager.py 188, 196, 239: the error branches that end with break
BreakTexts ==
    {"Failed to send state request to {device_id}",
     "Device {device_id} didn't respond to state request",
     "No state received from {device_id} after action"}

\* the handler calls get_action_response (handle_action) with the devices
\* of the request
A_Start ==
    /\ variant \in Variants
    /\ pc = "idle"
    /\ request = <<>>
    /\ now + Budget(variant) <= MaxTime
    /\ \E devices \in ActionRequests :
        /\ request' = devices
        /\ devices_todo' = devices
    /\ responses' = <<>>
    /\ pc' = "a_device"
    /\ UNCHANGED <<envVars, reqVars, waitVars>>
    /\ UNCHANGED <<ret, current_state_data, result, calls, command_at, postVars, readVars>>
    /\ UNCHANGED <<arrived, starts, capabilities_todo, device_capabilities, started_at>>
    /\ UNCHANGED <<lockVars, connVars, pubVars, resub>>

\* the outer loop: the next device, or the return of the response
A_Device ==
    /\ pc = "a_device"
    /\ IF devices_todo = <<>>
       THEN /\ pc' = "returned"
            /\ UNCHANGED <<device_id, devices_todo, capabilities_todo, device_capabilities>>
       ELSE /\ pc' = "a_capability"
            /\ device_id' = Head(devices_todo).id
            /\ capabilities_todo' = Head(devices_todo).values
            /\ device_capabilities' = <<>>
            /\ devices_todo' = Tail(devices_todo)
    /\ UNCHANGED <<envVars, variant, state_value, waitVars>>
    /\ UNCHANGED <<ret, current_state_data, result, calls, command_at, postVars, readVars>>
    /\ UNCHANGED <<arrived, responses, starts, request, started_at>>
    /\ UNCHANGED <<lockVars, connVars, pubVars, resub>>

\* the inner loop: the next capability begins its protocol as a request for
\* one capability does, the histories starting anew; after the last one the
\* device's entry is appended
A_Capability ==
    /\ pc = "a_capability"
    /\ IF capabilities_todo = <<>>
       THEN /\ responses' = Append(responses,
                                   ActionDeviceResponse(device_id, device_capabilities))
            /\ pc' = "a_device"
            /\ UNCHANGED <<state_value, capabilities_todo, current_state_data, result>>
            /\ UNCHANGED <<command_at, postVars, readVars, started_at, calls>>
       ELSE /\ now + Budget(variant) <= MaxTime
            /\ state_value' = Head(capabilities_todo)
            /\ capabilities_todo' = Tail(capabilities_todo)
            /\ responses' = responses
            /\ result' = NoResult
            /\ command_at' = -1
            /\ post_states' = {}
            /\ post_in_time' = {}
            /\ fallback_entry' = NoData
            /\ fallback_ret' = NoData
            /\ verified' = NoData
            /\ started_at' = nmsgs
            /\ calls' = <<>>
            /\ CASE variant = "dm" ->
                     pc' = "dm_request_state" /\ current_state_data' = NoData
                 [] variant = "idx" ->
                     pc' = "idx_request_state" /\ current_state_data' = NoData
                 [] variant = "pers" ->
                     IF device_id = PUSHER_ID
                     THEN pc' = "pers_shortcut" /\ current_state_data' = NoData
                     ELSE /\ pc' = "pers_command"
                          /\ current_state_data' =
                                 get_device_state(mqtt_device_id, PERS_BASELINE_MAX_AGE)
    /\ UNCHANGED <<envVars, variant, device_id, waitVars, ret>>
    /\ UNCHANGED <<arrived, devices_todo, starts, request, device_capabilities>>
    /\ UNCHANGED <<lockVars, connVars, pubVars, resub>>

\* the capability's protocol has ended.  device_manager.py: an exception
\* leaves get_action_response, an error branch with break ends the device's
\* capabilities; index.py: the result is appended; the persistent draft:
\* the pusher's shortcut returns the response at once
A_CapabilityDone ==
    /\ pc = "done"
    /\ request # <<>>
    /\ IF result.raised # None
       THEN /\ pc' = "returned"
            /\ UNCHANGED <<responses, capabilities_todo, device_capabilities>>
       ELSE /\ device_capabilities' = Append(device_capabilities, result)
            /\ IF variant = "pers" /\ device_id = PUSHER_ID
               THEN /\ responses' = Append(responses,
                           ActionDeviceResponse(device_id, device_capabilities'))
                    /\ pc' = "returned"
                    /\ capabilities_todo' = capabilities_todo
               ELSE /\ responses' = responses
                    /\ pc' = "a_capability"
                    /\ capabilities_todo' =
                           IF variant = "dm" /\ result.error_message.text \in BreakTexts
                           THEN <<>> ELSE capabilities_todo
    /\ UNCHANGED <<envVars, reqVars, waitVars>>
    /\ UNCHANGED <<ret, current_state_data, result, calls, command_at, postVars, readVars>>
    /\ UNCHANGED <<arrived, devices_todo, starts, request, started_at>>
    /\ UNCHANGED <<lockVars, connVars, pubVars, resub>>

ActInit == Constructed /\ variant \in Variants
ActNext ==
    \/ OnMessage
    \/ Tick
    \/ wait_for_state
    \/ wait_for_state_change
    \/ wait_for_state_update_init
    \/ wait_for_state_update
    \/ A_Start
    \/ A_Device
    \/ A_Capability
    \/ A_CapabilityDone
    \/ DM_RequestState
    \/ DM_Baseline
    \/ DM_Command
    \/ DM_RequestStateAfter
    \/ DM_Verify
    \/ IDX_RequestState
    \/ IDX_Baseline
    \/ IDX_Command
    \/ IDX_RequestStateAfter
    \/ IDX_Verify
    \/ PERS_Shortcut
    \/ PERS_Command
    \/ PERS_Verify

ActSpec == ActInit /\ [][ActNext]_vars

\* --------------------------------------------------------------- claims
Serverless == {"dm", "idx"}

\* the request has run the call or wait op
Ran(op) == \E i \in 1..Len(calls) : calls[i].op = op

\* the request has handed an actuating command to the dispatcher
CommandDispatched ==
    \E i \in 1..Len(calls) : calls[i].op = "publish" /\ calls[i].arg \in {"0", "1"}

\* the state request went out and the baseline wait returned None
NoBaseline ==
    /\ variant \in Serverless
    /\ Len(calls) >= 2
    /\ calls[1] = Call("publish", "state", TRUE)
    /\ calls[2] = Call("wait_for_state", "return", FALSE)

\* C1: when the state request is dispatched and the baseline wait expires
\* with no entry for the device, the request ends in ERROR with the
\* no-baseline message and no actuating command is ever dispatched.
C1_NoBaselineNoCommand ==
    NoBaseline =>
        /\ ~CommandDispatched
        /\ pc = "done" =>
            /\ result.status = ERROR_STATUS
            /\ result.error_message.text = "Device {device_id} didn't respond to state request"

\* C2: when the dispatch of the initial state request fails, the request
\* ends in ERROR and neither the baseline wait nor the command follows.
C2_StateRequestFailureAborts ==
    (/\ variant \in Serverless
     /\ Len(calls) >= 1
     /\ calls[1] = Call("publish", "state", FALSE))
    => /\ Len(calls) = 1
       /\ pc \notin WaitPcs
       /\ pc = "done" => result.status = ERROR_STATUS

\* C3: an action request reports DONE only for an entry whose state is the
\* desired one.
C3_DoneOnlyIfVerified ==
    (variant \in Serverless /\ result.status = "DONE") => verified.state = expected_state

C3_Witness ==
    /\ variant \in Serverless
    /\ result.status = "DONE"
    /\ verified # NoData

\* C4: a DONE rests on an entry that arrived after the actuating command
\* was dispatched; with a baseline equal to the desired value and no
\* telemetry after the command the request does not report DONE.
C4_StaleNeverConfirms ==
    /\ (result.status = "DONE" /\ verified # NoData) => verified.seq > command_at
    /\ (/\ pc = "done"
        /\ command_at >= 0
        /\ current_state = expected_state
        /\ nmsgs = command_at)
       => result.status # "DONE"

\* the case of C5: baseline "off", command "1" accepted, the wait for the
\* change entered, every entry stored since the baseline reports "on" and
\* one of them landed before the wait's deadline
SuccessfulActionCase ==
    /\ pc = "done"
    /\ variant \in Serverless
    /\ state_value
    /\ current_state = "off"
    /\ command_at >= 0
    /\ Ran("wait_for_state_change")
    /\ post_states = {"on"}
    /\ "on" \in post_in_time

\* C5: baseline "off", command "1" dispatched, telemetry "on" before the
\* wait for the change expires: the request reports DONE.
C5_SuccessfulAction == SuccessfulActionCase => result.status = "DONE"

C5_Witness ==
    /\ SuccessfulActionCase
    /\ result.status = "DONE"
    /\ verified.seq > command_at

\* C6: desired "on", baseline "off", command dispatched, the telemetry that
\* follows still reports "off": the request returns a structured ERROR
\* naming the expected and the actual value; never DONE, never an exception.
C6_MismatchIsStructuredError ==
    (/\ pc = "done"
     /\ variant \in Serverless
     /\ state_value
     /\ current_state = "off"
     /\ command_at >= 0
     /\ Ran("wait_for_state_change")
     /\ post_states = {"off"})
    => /\ result.status = ERROR_STATUS
       /\ result.raised = None
       /\ result.error_message.expected = "on"
       /\ result.error_message.actual = "off"

\* the freshness bound A of the fallback read: the persistent draft's
\* max_age_seconds; the serverless drafts pass none, the design asks for
\* one comparable to the timeout of the wait for the change
FreshnessBound ==
    CASE variant = "pers" -> PERS_FALLBACK_MAX_AGE
      [] variant = "dm" -> MQTT_WAIT_FOR_STATE_CHANGE_TIMEOUT
      [] variant = "idx" -> IDX_WAIT_FOR_STATE_CHANGE_TIMEOUT
      [] OTHER -> 0

\* the case of C7: the wait after the command returned None and the cache
\* then held an entry within the freshness bound reporting the desired state
FallbackCase ==
    /\ pc = "done"
    /\ Ran("wait_for_state_change") \/ Ran("wait_for_state_update")
    /\ ret = NoData
    /\ fallback_entry # NoData
    /\ now - fallback_entry.timestamp <= FreshnessBound
    /\ fallback_entry.state = expected_state

\* C7: when the wait after the command returns None and the cache holds a
\* fresh entry with the desired state, the request reports DONE through
\* the fallback read.
C7_FallbackRecovery == FallbackCase => result.status = "DONE"

C7_Witness == FallbackCase /\ result.status = "DONE" /\ verified = fallback_entry

\* C8: the fallback read returns the device's entry while its age is within
\* the freshness bound and None once it is older.
C8_FallbackReadIsFresh ==
    pc = "done" =>
        /\ fallback_ret # NoData => now - fallback_ret.timestamp <= FreshnessBound
        /\ (fallback_entry # NoData /\ now - fallback_entry.timestamp <= FreshnessBound)
           => fallback_ret = fallback_entry

\* C9: wait_for_state_change returns the entry whenever a message moving the
\* state away from previous_state is stored before the deadline.
C9_ChangeBeforeDeadlineIsReturned ==
    (/\ pc = "returned"
     /\ Ran("wait_for_state_change")
     /\ \E st \in post_in_time : st # previous_state)
    => ret # NoData

\* a wait is running
Waiting == pc \in WaitPcs \cup {"wait_for_state_update_init"}

\* a wait is never found later than one polling interval after its timeout,
\* and a timeout of 0 returns None at once, without a sleep
WaitBounded ==
    /\ (Waiting \/ pc = "returned") => now < start_time + timeout + PollTicks
    /\ (pc = "returned" /\ timeout = 0) =>
        /\ ret = NoData
        /\ now = start_time
        /\ wake = start_time

\* C10: every wait returns, an entry or None, no later than one polling
\* interval after its timeout; with timeout 0 it returns None without a sleep.
C10_EveryWaitReturns == []WaitBounded /\ (Waiting ~> pc = "returned")

C10_Witness == pc = "returned" /\ ret = NoData /\ now = start_time + Span(timeout) /\ timeout > 0

\* the record built from the last well-formed message delivered for d
LastArrivedRecord(d) ==
    [state |-> json_loads(arrived[d].body).state, timestamp |-> arrived[d].at,
     seq |-> arrived[d].seq, raw_payload |-> arrived[d].body]

\* C11: at every moment a read of the cache for a device returns exactly the
\* record built from the last well-formed message that arrived for it, and
\* nothing when none has arrived.
C11_CacheHoldsLastArrival ==
    \A d \in SubscribedDevices :
        get_cached_state(d) = IF arrived[d].n = 0 THEN NoData ELSE LastArrivedRecord(d)

C11_Witness ==
    \E d \in SubscribedDevices :
        /\ arrived[d].n = 2
        /\ get_cached_state(d) = LastArrivedRecord(d)
        /\ get_cached_state(d).seq = 2
        /\ verified = LastArrivedRecord(d)

\* C12: within one query the handling of a device never begins later than
\* the handling of a different device: no device is held up by the wait for
\* another one, and the timeouts of their waits run side by side.
C12_DevicesDoNotWaitForEachOther ==
    \A i, j \in 1..Len(starts) :
        starts[i].id # starts[j].id => starts[i].at = starts[j].at

\* a thread asks for the lock while the other thread holds it for another device
BlockedByOtherDevice ==
    /\ net_msg # NoDelivery
    /\ net_msg.d # mqtt_device_id
    /\ \/ net_pc = "acquire" /\ state_lock = "main"
       \/ main_pc = "acquire" /\ state_lock = "net"

\* C13: a write for one device and a read for another never wait for each
\* other at the cache's critical section.
C13_NoContentionAcrossDevices == ~BlockedByOtherDevice

\* a message is in the hands of the network thread
Delivering == net_pc \in {"acquire", "locked"}

\* C14: the waiter never sleeps with the cache's lock held, and every message
\* the network thread takes while a wait runs is written to the cache.
C14_WaiterDoesNotBlockDelivery ==
    /\ [](main_pc = "sleep" => state_lock # "main")
    /\ (Delivering ~> net_pc = "idle")

C14_Witness ==
    /\ main_pc = "sleep"
    /\ net_pc = "locked"
    /\ state_lock = "net"

ConnectReturns == cs_result' # cs_result

\* C16: the connecting call returns False, and raises nothing, when its
\* wait ends with no connection signal, when the broker answered with a
\* non-zero code, and when the transport's connect raised; it returns True
\* only if a connect callback with a success code was observed.
C16_ConnectFailureIsFalse ==
    [][/\ ConnectReturns => cs_result' \in {"True", "False"}
       \* the wait ends without the signal, or with a refusal
       /\ (hpc = "cs_wait" /\ hpc' # hpc /\ ~(connection_event /\ connected))
              => hpc' = "cs_except"
       \* a step of the set-up raised
       /\ (hpc = "cs_setup" /\ hpc' # hpc /\ transport' # "connecting")
              => hpc' = "cs_except"
       /\ (hpc = "cs_except" /\ hpc' # hpc) => cs_result' = "False"
       /\ (hpc = "m_connect" /\ hpc' # hpc /\ transport' # "connecting")
              => cs_result' = "False"
       /\ (hpc = "m_wait" /\ hpc' # hpc /\ ~connected) => cs_result' = "False"
       /\ (ConnectReturns /\ cs_result' = "True") =>
              /\ connected
              /\ transport = "open"
              /\ variant = "idx" => connection_event
      ]_vars

\* the broker refused: the signal came with a non-zero code
C16_Witness ==
    /\ variant = "idx"
    /\ hpc = "after_connect"
    /\ cs_result = "False"
    /\ connection_event
    /\ ~connected
    /\ last_cleanup.called

\* C17: connect_and_subscribe returns failure when the handshake succeeded
\* and the subscribe for at least one requested topic reported a
\* non-success result.
C17_RejectedSubscriptionFails ==
    (variant = "idx" /\ hpc = "after_connect" /\ \E i \in 1..Len(sub_log) : ~sub_log[i].ok)
        => cs_result = "False"

\* the connection is closed: no network thread, no transport
Closed == ~loop_running /\ transport = "closed"

\* C18: cleanup and disconnect never raise and leave the connection closed
\* in whatever state they are called (before any connect, after a failed
\* connect, after an earlier cleanup), and a call on a closed connection
\* changes nothing.
C18_CleanupIsIdempotent ==
    /\ [](last_cleanup.called =>
             /\ ~last_cleanup.raised
             /\ ~last_cleanup.loop_running
             /\ last_cleanup.transport = "closed")
    /\ [][(cleanup_calls' > cleanup_calls /\ Closed) => paho' = paho]_vars

\* the failed connect, cleaned once in connect_and_subscribe and once more
\* by the handler, with the network thread running at the first call
C18_Witness ==
    /\ variant = "idx"
    /\ hpc = "returned"
    /\ cs_result = "False"
    /\ client
    /\ cleanup_calls = 2
    /\ last_cleanup.called
    /\ Closed

\* a handler that created a connection object has returned
ReturnedWithConnection == hpc = "returned" /\ mqtt_client

\* C19 as stated: every handler invocation that created a connection
\* object has torn it down when it returns, on every path, in both
\* handlers: the network thread is stopped and the transport closed.
C19_TeardownBeforeReturn == ReturnedWithConnection => Closed

\* C19, amended: the handler of index.py tears down the client it created
\* before it returns, on every path (result, failed connect, exception
\* while handling): cleanup has been called, the network thread is stopped
\* and the transport closed.
C19_ServerlessTeardownBeforeReturn ==
    (variant = "idx" /\ ReturnedWithConnection) => (last_cleanup.called /\ Closed)

\* a request handled over an established connection
C19_Witness ==
    /\ variant = "idx"
    /\ ReturnedWithConnection
    /\ cs_result = "True"
    /\ connected
    /\ hresult = "result"
    /\ cleanup_calls = 1
    /\ Closed

\* a message was delivered and dropped: it is counted, and it is not the
\* last well-formed message of any device
MalformedDelivered == nmsgs' = nmsgs + 1 /\ arrived' = arrived

\* C20: the delivery of a malformed message (bytes that do not decode,
\* text that is not JSON, a JSON value that is not an object) changes
\* neither the cache nor anything of the running request, which goes on as
\* if nothing had arrived; and whatever was dropped before, the cache holds
\* for each device the last well-formed message delivered for it.
C20_MalformedIsDropped ==
    /\ [][MalformedDelivered =>
            UNCHANGED <<device_states, reqVars, waitVars, pc, ret, current_state_data,
                        result, calls, command_at, postVars, readVars>>]_vars
    /\ [](\A d \in SubscribedDevices :
            arrived[d].n > 0 => device_states[d].raw_payload = arrived[d].body)

\* the first message was dropped, the second one stored, and the request
\* read it
C20_Witness ==
    /\ nmsgs = 2
    /\ \E d \in SubscribedDevices :
        /\ arrived[d].n = 1
        /\ arrived[d].seq = 2
        /\ device_states[d].seq = 2
        /\ verified = device_states[d]
        /\ \A e \in SubscribedDevices \ {d} : arrived[e].n = 0

\* the last dispatcher call met one of the faults
PublishFault ==
    \/ pub_in.device_id \notin KnownDevices
    \/ pub_in.token # "valid"
    \/ pub_in.response # "200"

\* C21: a call of publish_command_to_api returns a boolean and raises
\* nothing; it returns False for an unknown device id, a missing or
\* malformed token, a transport exception and an answer other than 200,
\* and True only when the outbound call answered 200; the call leaves the
\* telemetry cache as it was.
C21_DispatcherNeverRaises ==
    /\ [](pub_in # NoPublish =>
             /\ pub_out \in BOOLEAN
             /\ PublishFault => pub_out = FALSE
             /\ pub_out = TRUE => pub_in.response = "200")
    /\ [][pub_in' # pub_in => device_states' = device_states]_vars

\* the unknown device, called on a cache that holds an entry
C21_Witness ==
    /\ pub_in.device_id = UNKNOWN_ID
    /\ pub_in.token = "valid"
    /\ pub_in.response = "200"
    /\ pub_out = FALSE
    /\ \E d \in SubscribedDevices : device_states[d] # NoData

\* C22: every request of the serverless drafts ends with a structured
\* outcome and never with an exception: DONE, or an ERROR object carrying
\* status, error code and message.
C22_FailuresAreStructured ==
    (variant \in Serverless /\ pc = "done") =>
        /\ result.raised = None
        /\ result.status \in {"DONE", ERROR_STATUS}
        /\ result.status = ERROR_STATUS =>
            /\ result.error_code = DEVICE_UNREACHABLE_CODE
            /\ result.error_message.text # None

\* the query has just answered for a device after its wait
QueryAnswers == pc = "after_wait_for_state" /\ pc' = "q_device"

\* C23 as stated: a query hands no other command than "state" to the
\* dispatcher, and a value it reports for a device (an answer without an
\* error) is the value of the record its wait returned.
C23_QueryReportsBaseline ==
    /\ [](\A i \in 1..Len(calls) : calls[i].op = "publish" => calls[i].arg = "state")
    /\ [][QueryAnswers =>
            LET answer == responses'[Len(responses')] IN
            answer.error_message = None => (ret # NoData /\ answer.value = (ret.state = "on"))]_vars

\* C24: in one invocation of the handler connect is entered at most once
\* (only from the start of the invocation, never after it has returned a
\* value), and when it returned False the handler dispatches nothing, runs
\* no wait and answers with an error.
C24_ConnectFailureIsNotRetried ==
    /\ []((variant = "idx" /\ cs_result = "False") =>
             /\ calls = <<>>
             /\ hpc \in {"after_connect", "finally", "returned"}
             /\ hpc = "returned" => hresult = "INTERNAL_ERROR")
    /\ [][(variant = "idx" /\ hpc' = "cs_setup") => (hpc = "start" /\ cs_result = None)]_vars

\* the handshake was never answered and the handler has returned
C24_Witness ==
    /\ variant = "idx"
    /\ hpc = "returned"
    /\ cs_result = "False"
    /\ ~connection_event
    /\ hresult = "INTERNAL_ERROR"
    /\ calls = <<>>

\* the connection is established: the network thread runs on an open transport
Established == loop_running /\ transport = "open"

\* C25 as stated: whenever the connection is established, after a reconnect
\* as well as before, the broker delivers every topic the client has
\* subscribed to successfully.
C25_ResubscribedAfterReconnect == Established => subscribed_topics \subseteq broker_subs

\* the cache held an entry for the device when the wait was called: it
\* holds one and none was stored during the wait
PresentAtCall == HasState(mqtt_device_id) /\ post_states = {}

\* C26 as stated: wait_for_state returns the device's entry whenever the
\* cache held one between the call and the deadline, an entry present at
\* the call and a timeout of 0 included; it returns None only otherwise.
C26_WaitForStateReturnsRecord ==
    (/\ pc = "returned"
     /\ Ran("wait_for_state")
     /\ PresentAtCall \/ post_in_time # {})
    => ret = device_states[mqtt_device_id]

\* C27 as stated: with previous_state None, wait_for_state_change returns
\* the device's entry as soon as there is one, whatever its state (an entry
\* built from a payload without "state" included): an entry present at the
\* call of a wait with a positive timeout is returned.  With a previous
\* state it returns only an entry whose state differs from it.
C27_ChangeFromNoneIsAnyRecord ==
    (pc = "returned" /\ Ran("wait_for_state_change")) =>
        /\ (previous_state = None /\ timeout > 0 /\ PresentAtCall)
               => ret = device_states[mqtt_device_id]
        /\ (previous_state # None /\ ret # NoData) => ret.state # previous_state

\* the request has ended after its actuating command was accepted
EndedAfterCommand == variant \in Serverless /\ pc = "done" /\ command_at >= 0

\* C28 as stated: a request whose actuating command was accepted never ends
\* without having run the wait for the change, and when the device has
\* reported the desired state, and no other, since the baseline was read and
\* before the deadline of that wait, the request ends in DONE.
C28_CommandThenWait ==
    EndedAfterCommand =>
        /\ Ran("wait_for_state_change")
        /\ (post_states = {expected_state} /\ expected_state \in post_in_time)
           => result.status = "DONE"

\* the wait for the change ran and nothing at all was delivered after the
\* actuating command
NoTelemetryAfterCommand ==
    /\ EndedAfterCommand
    /\ Ran("wait_for_state_change")
    /\ nmsgs = command_at

\* C29 as stated: when nothing arrives after the actuating command, so that
\* the wait for the change times out and the fallback read has no fresh
\* entry, the request ends in ERROR with the no-confirmation message,
\* neither in DONE nor in an expected-versus-actual mismatch.
C29_NoConfirmationError ==
    NoTelemetryAfterCommand =>
        /\ result.status = ERROR_STATUS
        /\ result.error_message.text \in {"No state received from {device_id} after action",
                                          "Failed to get state after action"}

\* the step stores one message: one entry is replaced, all of its fields
\* built from the message being delivered
WholeEntryStored ==
    /\ nmsgs' = nmsgs + 1
    /\ \E d \in SubscribedDevices :
        /\ device_states' = [device_states EXCEPT ![d] = device_states'[d]]
        /\ device_states'[d].seq = nmsgs + 1
        /\ device_states'[d].timestamp = now
        /\ device_states'[d].state = json_loads(device_states'[d].raw_payload).state

\* a step of a wait, of the read, of the connect, of the handler or of cleanup
OperationStep ==
    \/ pc' # pc
    \/ wake' # wake
    \/ hpc' # hpc
    \/ paho' # paho
    \/ cleanup_calls' # cleanup_calls
    \/ fallback_ret' # fallback_ret

\* C30: the cache changes only in a step of the message callback, which
\* replaces one device's entry as a whole; every cached entry's state,
\* timestamp and raw payload are those of one message, the last well-formed
\* one delivered for the device; the steps of wait_for_state,
\* wait_for_state_change, get_cached_state, connect and cleanup leave the
\* cache as it is.
C30_CallbackIsTheOnlyWriter ==
    /\ [][device_states' # device_states => WholeEntryStored]_vars
    /\ [][OperationStep => device_states' = device_states]_vars
    /\ [](\A d \in SubscribedDevices : device_states[d] # NoData =>
             /\ device_states[d].state = json_loads(device_states[d].raw_payload).state
             /\ device_states[d].raw_payload = arrived[d].body
             /\ device_states[d].timestamp = arrived[d].at
             /\ device_states[d].seq = arrived[d].seq)

\* the handler has connected, messages were stored for a device twice, and
\* cleanup has run
C30_Witness ==
    /\ variant = "idx"
    /\ hpc = "returned"
    /\ cs_result = "True"
    /\ last_cleanup.called
    /\ \E d \in SubscribedDevices : arrived[d].n = 2 /\ device_states[d].seq = 2

\* the entries a request has taken from the cache so far
Observed == {ret, current_state_data, fallback_ret, verified} \ {NoData}

\* C31: a message on the state topic of device e changes the entry of e
\* only: the entry of any device changes only in a step that delivers a
\* well-formed message for that very device, and every entry a request for
\* device d takes from a wait or a read was stored by a message for d, never
\* by one for another device.
C31_OtherDevicesUntouched ==
    /\ [][\A d \in SubscribedDevices :
            arrived'[d] = arrived[d] => device_states'[d] = device_states[d]]_vars
    /\ [](\A x \in Observed :
            /\ x.seq \in 1..arrived[mqtt_device_id].seq
            /\ \A e \in SubscribedDevices \ {mqtt_device_id} : x.seq # arrived[e].seq)

\* a request has ended unconfirmed although, after its baseline, another
\* device reported the very state the request was waiting for
C31_Witness ==
    /\ variant \in Serverless
    /\ pc = "done"
    /\ command_at >= 0
    /\ result.status # "DONE"
    /\ verified = current_state_data
    /\ \E e \in SubscribedDevices \ {mqtt_device_id} :
        /\ arrived[e].seq > current_state_data.seq
        /\ json_loads(arrived[e].body).state = expected_state

\* the step in which a capability of device_manager.py or index.py takes
\* what its first wait returned as its baseline
TakesBaseline ==
    /\ variant \in Serverless
    /\ pc = "after_wait_for_state"
    /\ pc' \in {"dm_command", "idx_command"}
    /\ current_state_data' # NoData

\* C32: the entry a capability takes as its baseline was stored after the
\* capability dispatched its own state request, hence after its handling
\* began: an entry cached before that is never the baseline.
C32_BaselineIsFresh ==
    [][TakesBaseline => current_state_data'.seq > started_at]_vars

\* the last dispatcher call on record
LastPublish(c) ==
    c[CHOOSE i \in 1..Len(c) :
        /\ c[i].op = "publish"
        /\ \A j \in (i + 1)..Len(c) : c[j].op # "publish"]

\* the step appends the entry of one device to the query response
EntryAppended == Len(responses') = Len(responses) + 1

\* C33: a query reports a value for a device only if its state request was
\* sent and the wait returned an entry; when the dispatcher fails or the wait
\* times out, the device's entry carries an error and no value.
C33_NoValueWithoutRecord ==
    [][EntryAppended =>
        LET answer == responses'[Len(responses')]
        IN (~LastPublish(calls').ok \/ ret = NoData) => answer.error_message # None]_vars

\* the action request has ended, with its response or with an exception
ActionEnded == request # <<>> /\ pc = "returned"

\* C34: when an action request of device_manager.py or index.py has ended,
\* every device handled has one capability result per capability listed for
\* it, each with the status DONE or ERROR: an error on a capability does not
\* remove the results of those after it.
C34_OneResultPerCapability ==
    (ActionEnded /\ variant \in Serverless) =>
        /\ Len(responses) = Len(request)
        /\ \A i \in 1..Len(responses) :
            /\ Len(responses[i].capabilities) = Len(request[i].values)
            /\ \A j \in 1..Len(responses[i].capabilities) :
                responses[i].capabilities[j].status \in {"DONE", ERROR_STATUS}

\* C35: when an action request has ended, its response has one entry per
\* device of the request, in the order of the request: no device ends the
\* request before the devices after it have been handled.
C35_OneEntryPerDevice ==
    ActionEnded =>
        /\ Len(responses) = Len(request)
        /\ \A i \in 1..Len(responses) : responses[i].id = request[i].id

\* the manager exists and get_mqtt_manager has returned it
ManagerReturned == variant = "pers" /\ mqtt_client /\ hpc \in {"route", "returned"}

\* C36: once get_mqtt_manager has returned the manager, whenever the
\* manager's connected flag is true every configured state topic is in its
\* set of subscribed topics.
C36_ConnectedMeansSubscribed ==
    (ManagerReturned /\ connected) =>
        \A i \in 1..Len(StateTopics) : StateTopics[i] \in subscribed_topics

\* the handler is inside get_mqtt_manager's first call: connect, the wait
\* for the connection, the subscriptions
InFirstCall == hpc \in {"m_connect", "m_wait", "m_after", "m_subscribe"}

\* C37: get_mqtt_manager connects and subscribes in its first call only:
\* the manager is created and connect entered only while no manager exists,
\* and once a manager exists and a request has been answered no later
\* request enters connect or the subscriptions again, whether the first
\* connect returned True or False.
C37_OneManagerOneConnect ==
    /\ [][(variant = "pers" /\ hpc' = "m_connect" /\ hpc # "m_connect") =>
            (~mqtt_client /\ ~client /\ cs_result = None)]_vars
    /\ [][(variant = "pers" /\ mqtt_client /\ ~InFirstCall) => ~InFirstCall']_vars
    /\ [][(variant = "pers" /\ mqtt_client) => mqtt_client']_vars

\* a request is routed on a manager whose connect had returned True and
\* which has been disconnected since: it is not connected again
C37_Witness ==
    /\ variant = "pers"
    /\ hpc = "route"
    /\ cs_result = "True"
    /\ last_cleanup.called
    /\ client
    /\ ~loop_running
    /\ transport = "closed"

\* a request of the persistent draft has ended after its wait for an update
UpdateWaitEnded == variant = "pers" /\ pc = "done" /\ Ran("wait_for_state_update")

\* the device's answer to the command was stored before the wait read its
\* initial timestamp
ReplyBeforeCapture == initial_timestamp # NoData /\ initial_timestamp.seq > command_at

\* C38: wait_for_state_update returns only an entry stored after the one
\* it found when it started, never that one; an answer to the command that
\* was stored before the wait read its initial timestamp is therefore not
\* what the wait returns, and the verdict rests on it only through the
\* cache read bounded by max_age_seconds = 10.
C38_UpdateIsNewerThanInitial ==
    UpdateWaitEnded =>
        /\ (ret # NoData /\ initial_timestamp # NoData) =>
               /\ ret.seq > initial_timestamp.seq
               /\ ret.timestamp >= initial_timestamp.timestamp
        /\ ReplyBeforeCapture =>
               /\ ret # initial_timestamp
               /\ verified = initial_timestamp =>
                      /\ ret = NoData
                      /\ fallback_ret = initial_timestamp
                      /\ now - verified.timestamp <= PERS_FALLBACK_MAX_AGE

\* the answer came before the wait started, the wait timed out and the
\* bounded cache read confirmed the command with it
C38_Witness ==
    /\ UpdateWaitEnded
    /\ ReplyBeforeCapture
    /\ ret = NoData
    /\ verified = initial_timestamp
    /\ result.status = "DONE"

\* C39: while the network thread is in the loop of _on_connect over
\* subscribed_topics, the set is the one the loop began with:
\* subscribe_to_device never adds a topic to it during the loop, and the
\* loop never ends with the iterator's RuntimeError.
C39_NoChangeWhileIterating ==
    /\ resub.active => subscribed_topics = resub.of
    /\ ~resub.raised

====
